---- MODULE Spec2Model ----
(***************************************************************************)
(* Lifecycle synchronisation core of react-leaflet: the element hook, the   *)
(* layer attach/detach hook, the Pane component and the attribution hook,   *)
(* each driven by the render / commit / unmount protocol of the host UI     *)
(* framework.                                                               *)
(*                                                                          *)
(* A JavaScript object reference is modelled by a record whose `ref` field  *)
(* is the identity of the object: two records are the same reference iff    *)
(* they are equal, and two structurally equal objects differ in `ref`.      *)
(***************************************************************************)
EXTENDS Integers, Sequences, FiniteSets, TLC

\* JavaScript null / undefined, for a string-valued expression.
Null == "null"
\* JavaScript null / undefined, for an object-valued expression.
None == [null |-> TRUE]

\* ------------------------------------------------------------------------
\* Bounds of the model.
\* ------------------------------------------------------------------------
NumUserProps == 2      \* distinct user props objects with equal content
NumContexts == 2       \* distinct context objects with equal content
MaxRenders == 3        \* renders of one component instance
NumLayers == 2         \* layer components under one map
NumPanes == 2          \* Pane components mounted at the same time
MaxPaneCreates == 2    \* panes created in the backend over a run
MaxClassNameLen == 3   \* characters of a class string
NumHandlerMaps == 3    \* distinct handler map objects
NumPathOptions == 2    \* distinct pathOptions objects
MaxContextObjects == 2 \* context objects allocated over a run

\* ------------------------------------------------------------------------
\* Values.
\* ------------------------------------------------------------------------
\* props.pane: absent, the empty string, a pane name.
PropPanes == {Null, "", "propPane"}
\* context.pane: absent or the name of the closest Pane.
ContextPanes == {Null, "ctxPane"}

\* The props objects a parent can pass to a layer or path component.
UserProps == [ref : 1..NumUserProps, pane : PropPanes]
\* The context values a LeafletProvider can publish.
Contexts == [ref : 1..NumContexts, pane : ContextPanes]

\* The layer groups a context can name as its layerContainer.
Groups == {"g1", "g2"}
\* The one map of the tree, as the target of a call.
TheMap == "map"
\* The contexts a layer component can read: the map, and the ambient
\* layer container when a group above the component published one.
LayerContexts == [ref : 1..NumContexts, layerContainer : {Null} \cup Groups]
\* The layer instances of the components, and a layer that is not theirs.
Layers == 1..NumLayers
ForeignLayer == 0

VARIABLES
  updateElement,  \* second argument of createElementHook: Null or a function
  eHook,          \* the hook createElementHook returned
  ePhase,         \* position of the component instance in its lifecycle
  eUser,          \* props of the latest render
  eCtx,           \* context read by the latest render
  eProps,         \* props handed to useElement by the latest render
  eDeps,          \* dependencies of updateElementProps at the last commit
  eCommUser,      \* props of the last committed render
  elementRef,     \* elementRef.current
  propsRef,       \* propsRef.current
  eRenders,       \* renders so far
  eCommits,       \* commits so far
  eCreated,       \* createElement calls so far
  eChanged,       \* a committed re-render brought other props than the last
  eCalls          \* calls on the instance made by the latest commit

elemVars == <<updateElement, eHook, ePhase, eUser, eCtx, eProps, eDeps,
              eCommUser, elementRef, propsRef, eRenders, eCommits, eCreated,
              eChanged, eCalls>>

VARIABLES
  lPhase,     \* per layer component: "init", "mounted" or "unmounted"
  lCtx,       \* per mounted layer component: the context of its last commit
  lMap,       \* the layers of the map
  lGroup,     \* the layers of each group
  lOnMap,     \* whether each group is itself on the map
  lMap0,      \* the layers of the map before the first mount
  lGroup0,    \* the layers of each group before the first mount
  lError,     \* a call of the hook threw
  lExt,       \* application code removed a mounted layer from the backend
  lCalls      \* the calls made by the latest step of the hook

layerVars == <<lPhase, lCtx, lMap, lGroup, lOnMap, lMap0, lGroup0, lError,
               lExt, lCalls>>

\* The names predefined by Leaflet.
DEFAULT_PANES == {"mapPane", "markerPane", "overlayPane", "popupPane",
                  "shadowPane", "tilePane", "tooltipPane"}
\* Names an application gives to its panes.
CustomPanes == {"paneA", "paneB"}
\* The props of a Pane: its name, the parent pane and the class name (the
\* application styles all its panes alike: one class name, or none).
PaneProps(className) == [name : DEFAULT_PANES \cup CustomPanes,
                         pane : {Null, "paneA"},
                         className : {className}]
PaneSlots == 1..NumPanes

VARIABLES
  pPhase,          \* per Pane: "init", "pending", "ready", "failed", "unmounted"
  pProps,          \* per Pane: the props of its first render
  paneName,        \* per Pane: the state kept by useState(props.name)
  paneElement,     \* per Pane: the state holding the backend element
  pCtx,            \* the context above the Panes
  pClassName,      \* the className the application passes to its Panes
  mPanes,          \* map._panes: name -> element
  mPaneRenderers,  \* map._paneRenderers: name -> renderer
  mCreated,        \* panes created in the backend so far
  pThrown,         \* the name for which createPane threw in the latest step
  pCalls           \* the backend calls of the latest step

paneVars == <<pPhase, pProps, paneName, paneElement, pCtx, pClassName, mPanes,
              mPaneRenderers, mCreated, pThrown, pCalls>>

\* The values of the attribution prop, and the texts among them.
AttributionTexts == {"A", "B"}
AttributionValues == {Null, ""} \cup AttributionTexts

VARIABLES
  aPhase,          \* lifecycle position of the component using the hook
  aAttribution,    \* the attribution prop of the latest render
  aOptions,        \* the attribution the layer was constructed with
  aDeps,           \* the attribution of the last committed render
  attributionRef,  \* attributionRef.current
  aHasControl,     \* map.attributionControl != null
  aBag,            \* the control's _attributions: text -> count
  aRenders,        \* renders so far
  aCommits,        \* commits so far
  aCalls           \* the calls on the control made by the latest step

attrVars == <<aPhase, aAttribution, aOptions, aDeps, attributionRef,
              aHasControl, aBag, aRenders, aCommits, aCalls>>

VARIABLES
  cPhase,      \* "init", then "called" once updateClassName has returned
  cElement0,   \* the element argument as it was before the call (or None)
  cElement,    \* the element argument now
  cPrev,       \* the prevClassName argument
  cNext,       \* the nextClassName argument
  cCalls       \* the DomUtil calls of updateClassName, in order

classVars == <<cPhase, cElement0, cElement, cPrev, cNext, cCalls>>


VARIABLES
  hPhase,            \* position of the component instance in its lifecycle
  hHandlers,         \* the eventHandlers prop of the latest render
  hDeps,             \* eventHandlers at the last commit, NoDeps before it
  eventHandlersRef,  \* eventHandlersRef.current
  hInstalled,        \* per handler map: on() calls not yet undone by off()
  hStray,            \* off() was called with a map that was not installed
  hOns,              \* on() calls so far
  hRenders,          \* renders so far
  hCalls             \* calls on the instance made by the latest step

eventVars == <<hPhase, hHandlers, hDeps, eventHandlersRef, hInstalled, hStray,
               hOns, hRenders, hCalls>>


VARIABLES
  kPhase,       \* position of the control component in its lifecycle
  kPosition,    \* props.position of the latest render
  kCtx,         \* the context read by the latest render
  kElement,     \* elementRef.current of the control: None before creation
  positionRef,  \* positionRef.current
  kAddDeps,     \* dependencies of addControl at the last commit
  kUpdDeps,     \* dependencies of updateControl at the last commit
  kCommCtx,     \* the context of the last committed render
  kControl,     \* the backend control: the map it is on and its position
  kCreated,     \* controls constructed so far
  kRenders,     \* renders so far
  kCommits,     \* commits so far
  kMoved,       \* setPosition has been called on the control
  kCalls        \* calls on the control made by the latest step

controlVars == <<kPhase, kPosition, kCtx, kElement, positionRef, kAddDeps,
                 kUpdDeps, kCommCtx, kControl, kCreated, kRenders, kCommits,
                 kMoved, kCalls>>


VARIABLES
  sPhase,      \* position of the path component in its lifecycle
  sProps,      \* the props of the latest render
  sDeps,       \* the props of the last commit, NoDeps before it
  optionsRef,  \* optionsRef.current
  sStyle,      \* the argument of the latest setStyle call: None before it
  sRenders,    \* renders so far
  sCommits,    \* commits so far
  sCalls       \* calls on the path made by the latest step

styleVars == <<sPhase, sProps, sDeps, optionsRef, sStyle, sRenders, sCommits,
               sCalls>>


VARIABLES
  xHeap,      \* the context objects allocated so far, by identity
  xLast,      \* the latest operation on contexts and its arguments
  xHook,      \* the component hook of the latest render: Null before it
  xContext,   \* what useContext(LeafletContext) gave that render
  xResult,    \* how the render ended and the context the hook went on with
  xSteps      \* the steps of that render, and of its commit, in order

contextVars == <<xHeap, xLast, xHook, xContext, xResult, xSteps>>


\* One path component that is a container (Circle): usePath under
\* createContainerComponent.
VARIABLES
  uPhase,       \* "init", "rendered", "mounted", "discarded", "unmounted"
  uProps,       \* the props of the latest render
  uCtx,         \* the ambient context of the latest render
  uElement,     \* elementRef.current: the handle made on the first render
  uPropsRef,    \* propsRef.current of the element hook
  uHandlersRef, \* eventHandlersRef.current of useEventHandlers
  uOptionsRef,  \* optionsRef.current of usePathOptions
  uDeps,        \* the dependency arrays of the last commit
  uInstalled,   \* the instance's listeners: handler map -> times installed
  uMap,         \* the layers the map holds
  uGroup,       \* the layers each layer group holds
  uPublished,   \* the value of the LeafletProvider of the latest render
  uRenders,     \* renders so far
  uCreated,     \* backend instances constructed so far
  uAttached,    \* whether the effect addLayer has run for the instance
  uCalls        \* the backend calls of the latest step, in order

pathVars == <<uPhase, uProps, uCtx, uElement, uPropsRef, uHandlersRef,
              uOptionsRef, uDeps, uInstalled, uMap, uGroup, uPublished,
              uRenders, uCreated, uAttached, uCalls>>


\* One Pane over its renders.
VARIABLES
  qPhase,        \* "init", "pending", "ready", "failed", "unmounted"
  qProps,        \* the props of the latest render
  qCtx,          \* the ambient context of the latest render
  qPaneName,     \* the state of useState(props.name)
  qPaneElement,  \* the state holding the backend element
  qEffect,       \* the props and the context the effect closure captured
  qMemoDeps,     \* the dependency of the last useMemo computation
  qNewContext,   \* the value of useMemo
  qOutput,       \* what the latest render returned
  qPanes,        \* map._panes: name -> element
  qRenders,      \* renders the parent caused so far
  qCalls         \* the backend calls of the latest step

paneRenderVars == <<qPhase, qProps, qCtx, qPaneName, qPaneElement, qEffect,
                    qMemoDeps, qNewContext, qOutput, qPanes, qRenders,
                    qCalls>>


\* One div-overlay component (a Popup or a Tooltip).
VARIABLES
  oPhase,     \* "init", "rendered", "mounted", "unmounted"
  oIsOpen,    \* the state of useState(false), with the setOpen calls applied
  oView,      \* isOpen and props.children as the latest render read them
  oDeps,      \* the dependency array of updateOverlay at the last commit
  oRenders,   \* renders so far
  oCommits,   \* commits so far
  oCalls      \* the calls on the instance in the latest step

overlayVars == <<oPhase, oIsOpen, oView, oDeps, oRenders, oCommits, oCalls>>


\* One MapContainer.
VARIABLES
  rPhase,     \* "init", "rendered", "mounted", "discarded", "unmounted"
  rProps,     \* the props of the latest render
  rContext,   \* the state of useState(null), with setContext applied
  rSeen,      \* the context the latest render read
  rCleanup,   \* the context the cleanup of the last commit captured
  rOutput,    \* what the latest render put inside the div
  rMaps,      \* backend maps constructed so far
  rRemoved,   \* map.remove() calls so far
  rRenders,   \* renders so far
  rCommits,   \* commits so far
  rCalls      \* the backend calls of the latest step

rootVars == <<rPhase, rProps, rContext, rSeen, rCleanup, rOutput, rMaps,
              rRemoved, rRenders, rCommits, rCalls>>


\* Calls of withPane on props objects of the heap.
VARIABLES
  wHeap,   \* the props objects allocated so far, by reference
  wLast    \* the latest call: its number, arguments and result

withPaneVars == <<wHeap, wLast>>

vars == <<elemVars, layerVars, paneVars, attrVars, classVars, eventVars,
    controlVars, styleVars, contextVars, pathVars, paneRenderVars,
    overlayVars, rootVars, withPaneVars>>

\* ------------------------------------------------------------------------
\* pane.ts
\* ------------------------------------------------------------------------
\* JavaScript truthiness of a string-or-undefined value.
Truthy(v) == v # Null /\ v # ""

\* a ?? b
Coalesce(a, b) == IF a # Null THEN a ELSE b

\* withPane: `fresh` is the identity of the object the spread allocates.
withPaneInPlace(props, context, fresh) ==
  LET pane == Coalesce(props.pane, context.pane)
  IN  IF Truthy(pane)
        THEN [props EXCEPT !.pane = pane]
        ELSE props
withPane(props, context, fresh) ==
  LET pane == Coalesce(props.pane, context.pane)
  IN  IF Truthy(pane)
        THEN [props EXCEPT !.ref = fresh, !.pane = pane]
        ELSE props

\* ------------------------------------------------------------------------
\* element.ts
\* ------------------------------------------------------------------------
createElementObject(instance, context) ==
  [instance |-> instance, context |-> context]

\* The createElement argument of createElementHook: it constructs backend
\* instance number `id` from the props and wraps it in a handle.
createElement(id, props, context) ==
  createElementObject(id, context)

\* The hook createElementHook returns.
createElementHookAlwaysMutable(update) == "useMutableLeafletElement"
createElementHook(update) ==
  IF update = Null THEN "useImmutableLeafletElement"
                   ELSE "useMutableLeafletElement"

\* `if (!elementRef.current)`
NeedsCreateAlways(ref) == TRUE
NeedsCreate(ref) == ref = None

\* `propsRef.current !== props`
PropsChangedAlways(ref, props) == TRUE
PropsChanged(ref, props) == ref # props

\* React's comparison of an effect's dependency array with the one of the
\* last commit; the effect always runs on the first commit.
DepsChanged(old, new) == old = None \/ old # new

\* The effect updateElementProps: the calls it makes and the new propsRef.
updateElementPropsRefNotSaved(instance, props, ref) ==
  IF PropsChanged(ref, props)
    THEN [calls |-> << [op |-> "updateElement", instance |-> instance,
                        props |-> props, prevProps |-> ref] >>,
          propsRef |-> ref]
    ELSE [calls |-> << >>, propsRef |-> ref]
updateElementProps(instance, props, ref) ==
  IF PropsChanged(ref, props)
    THEN [calls |-> << [op |-> "updateElement", instance |-> instance,
                        props |-> props, prevProps |-> ref] >>,
          propsRef |-> props]
    ELSE [calls |-> << >>, propsRef |-> ref]

EInit ==
  /\ updateElement \in {Null, "updateElement"}
  /\ eHook = createElementHook(updateElement)
  /\ ePhase = "init"
  /\ eUser = None
  /\ eCtx = None
  /\ eProps = None
  /\ eDeps = None
  /\ eCommUser = None
  /\ elementRef = None
  /\ propsRef = None
  /\ eRenders = 0
  /\ eCommits = 0
  /\ eCreated = 0
  /\ eChanged = FALSE
  /\ eCalls = << >>

\* useLayer / usePath up to the element hook, with a provider above.
ERender(p, c) ==
  /\ ePhase \in {"init", "mounted"}
  /\ eRenders < MaxRenders
  /\ LET props == withPane(p, c, NumUserProps + eRenders + 1)
         create == NeedsCreate(elementRef)
     IN  /\ eUser' = p
         /\ eCtx' = c
         /\ eProps' = props
         /\ elementRef' = IF create
                            THEN createElement(eCreated + 1, props, c)
                            ELSE elementRef
         /\ eCreated' = IF create THEN eCreated + 1 ELSE eCreated
         \* useRef(props) keeps the value of the first render.
         /\ propsRef' = IF ePhase = "init"
                             /\ eHook = "useMutableLeafletElement"
                          THEN props
                          ELSE propsRef
  /\ ePhase' = "rendered"
  /\ eRenders' = eRenders + 1
  /\ eCalls' = << >>
  /\ UNCHANGED <<updateElement, eHook, eDeps, eCommUser, eCommits, eChanged>>

\* useLeafletContext with no provider above: the render throws before the
\* element hook is reached.
ERenderNoContext ==
  /\ ePhase = "init"
  /\ ePhase' = "error"
  /\ UNCHANGED <<updateElement, eHook, eUser, eCtx, eProps, eDeps, eCommUser,
                 elementRef, propsRef, eRenders, eCommits, eCreated, eChanged,
                 eCalls>>

\* The commit of the latest render: the effects whose dependencies changed.
ECommit ==
  /\ ePhase = "rendered"
  /\ LET deps == [instance |-> elementRef.instance, props |-> eProps,
                     context |-> eCtx]
         run == eHook = "useMutableLeafletElement" /\ DepsChanged(eDeps, deps)
         res == IF run
                  THEN updateElementProps(elementRef.instance, eProps, propsRef)
                  ELSE [calls |-> << >>, propsRef |-> propsRef]
     IN  /\ eCalls' = res.calls
         /\ propsRef' = res.propsRef
         /\ eDeps' = deps
  /\ eCommUser' = eUser
  /\ eChanged' = (eChanged \/ (eDeps # None /\ eDeps.props # eProps))
  /\ eCommits' = eCommits + 1
  /\ ePhase' = "mounted"
  /\ UNCHANGED <<updateElement, eHook, eUser, eCtx, eProps, elementRef,
                 eRenders, eCreated>>

\* The render is thrown away before commit (a sibling or descendant threw,
\* or the work was interrupted).  The hook state of a first render is lost
\* with it; the state of a mounted instance is kept.
EDiscard ==
  /\ ePhase = "rendered"
  /\ ePhase' = IF eCommits = 0 THEN "discarded" ELSE "mounted"
  /\ UNCHANGED <<updateElement, eHook, eUser, eCtx, eProps, eDeps, eCommUser,
                 elementRef, propsRef, eRenders, eCommits, eCreated, eChanged,
                 eCalls>>

\* The element hook registers no cleanup.
EUnmount ==
  /\ ePhase = "mounted"
  /\ ePhase' = "unmounted"
  /\ eCalls' = << >>
  /\ UNCHANGED <<updateElement, eHook, eUser, eCtx, eProps, eDeps, eCommUser,
                 elementRef, propsRef, eRenders, eCommits, eCreated, eChanged>>

ENext ==
  \/ \E p \in UserProps, c \in Contexts : ERender(p, c)
  \/ ERenderNoContext
  \/ ECommit
  \/ EDiscard
  \/ EUnmount

\* The element hook is not exercised.
EIdle ==
  /\ updateElement = Null
  /\ eHook = "useImmutableLeafletElement"
  /\ ePhase = "init"
  /\ eUser = None /\ eCtx = None /\ eProps = None /\ eDeps = None
  /\ eCommUser = None /\ elementRef = None /\ propsRef = None
  /\ eRenders = 0 /\ eCommits = 0 /\ eCreated = 0
  /\ eChanged = FALSE
  /\ eCalls = << >>

\* ------------------------------------------------------------------------
\* layer.ts: useLayerLifecycle
\* ------------------------------------------------------------------------
\* The backend as the hook sees it: the layer sets, whether a call threw,
\* and the calls made.
Backend == [map |-> lMap, group |-> lGroup, error |-> lError, calls |-> << >>]

\* target.addLayer(layer) for the map or a LayerGroup: a group that is on
\* the map also adds the layer to the map.
BackendAddLayer(b, target, layer) ==
  LET call == [op |-> "addLayer", target |-> target, layer |-> layer]
      b1 == [b EXCEPT !.calls = Append(@, call)]
  IN  IF target = TheMap
        THEN [b1 EXCEPT !.map = @ \cup {layer}]
        ELSE IF target \in Groups
          THEN [b1 EXCEPT !.group[target] = @ \cup {layer},
                          !.map = IF lOnMap[target] THEN @ \cup {layer} ELSE @]
          ELSE [b1 EXCEPT !.error = TRUE]

\* target.removeLayer(layer): no effect for a layer the target does not
\* hold; a group that is on the map removes a layer it holds from the map.
BackendRemoveLayer(b, target, layer) ==
  LET call == [op |-> "removeLayer", target |-> target, layer |-> layer]
      b1 == [b EXCEPT !.calls = Append(@, call)]
  IN  IF target = TheMap
        THEN [b1 EXCEPT !.map = @ \ {layer}]
        ELSE IF target \in Groups
          THEN [b1 EXCEPT !.group[target] = @ \ {layer},
                          !.map = IF lOnMap[target] /\ layer \in b.group[target]
                                    THEN @ \ {layer} ELSE @]
          ELSE [b1 EXCEPT !.error = TRUE]

\* `context.layerContainer ?? context.map`
AttachTargetMapOnly(context) == TheMap
AttachTarget(context) ==
  IF context.layerContainer # Null THEN context.layerContainer ELSE TheMap

\* The effect addLayer.
addLayer(b, context, instance) ==
  BackendAddLayer(b, AttachTarget(context), instance)

\* The cleanup removeLayer, with the context the effect captured.
removeLayerFromMapOnly(b, context, instance) ==
  BackendRemoveLayer(b, TheMap, instance)
removeLayer(b, context, instance) ==
  LET b1 == IF context.layerContainer # Null
              THEN BackendRemoveLayer(b, context.layerContainer, instance)
              ELSE b
  IN  BackendRemoveLayer(b1, TheMap, instance)

LInit ==
  /\ lPhase = [i \in Layers |-> "init"]
  /\ lCtx = [i \in Layers |-> None]
  \* one group that is on the map and one that is not (yet)
  /\ lOnMap = [g \in Groups |-> g = "g1"]
  \* the map and the groups start empty, or all hold a layer that is not
  \* one of the components' (a group on the map has its layers on the map)
  /\ lMap \in SUBSET {ForeignLayer}
  /\ lGroup = [g \in Groups |-> lMap]
  /\ lMap0 = lMap
  /\ lGroup0 = lGroup
  /\ lError = FALSE
  /\ lExt = FALSE
  /\ lCalls = << >>

LStore(b) ==
  /\ lMap' = b.map
  /\ lGroup' = b.group
  /\ lError' = b.error
  /\ lCalls' = b.calls

\* The first commit of layer component i under context c.  The components
\* are first mounted in order.
LMount(i, c) ==
  /\ lPhase[i] = "init"
  /\ \A j \in Layers : j < i => lPhase[j] # "init"
  /\ ~lError
  /\ LStore(addLayer(Backend, c, i))
  /\ lPhase' = [lPhase EXCEPT ![i] = "mounted"]
  /\ lCtx' = [lCtx EXCEPT ![i] = c]
  /\ UNCHANGED <<lOnMap, lMap0, lGroup0, lExt>>

\* A later commit of component i under context c: the effect is run again,
\* after its cleanup, when the context reference changed.
LUpdateNoCleanup(i, c) ==
  /\ lPhase[i] = "mounted"
  /\ ~lError
  /\ IF DepsChanged(lCtx[i], c)
       THEN LStore(addLayer(Backend, c, i))
       ELSE LStore(Backend)
  /\ lCtx' = [lCtx EXCEPT ![i] = c]
  /\ UNCHANGED <<lPhase, lOnMap, lMap0, lGroup0, lExt>>
LUpdate(i, c) ==
  /\ lPhase[i] = "mounted"
  /\ ~lError
  /\ IF DepsChanged(lCtx[i], c)
       THEN LStore(addLayer(removeLayer(Backend, lCtx[i], i), c, i))
       ELSE LStore(Backend)
  /\ lCtx' = [lCtx EXCEPT ![i] = c]
  /\ UNCHANGED <<lPhase, lOnMap, lMap0, lGroup0, lExt>>

\* Component i unmounts: the cleanup runs.
LUnmount(i) ==
  /\ lPhase[i] = "mounted"
  /\ ~lError
  /\ LStore(removeLayer(Backend, lCtx[i], i))
  /\ lPhase' = [lPhase EXCEPT ![i] = "unmounted"]
  /\ lCtx' = [lCtx EXCEPT ![i] = None]
  /\ UNCHANGED <<lOnMap, lMap0, lGroup0, lExt>>

\* Application code removes the layer of a mounted component from the map
\* or from a group through the backend, behind the hook's back.
LExternalRemove(i, target) ==
  /\ lPhase[i] = "mounted"
  /\ ~lError
  /\ i \in (IF target = TheMap THEN lMap ELSE lGroup[target])
  /\ LET b == BackendRemoveLayer(Backend, target, i)
     IN  /\ lMap' = b.map
         /\ lGroup' = b.group
  /\ lExt' = TRUE
  /\ lCalls' = << >>
  /\ UNCHANGED <<lPhase, lCtx, lOnMap, lMap0, lGroup0, lError>>

LNext ==
  \/ \E i \in Layers, c \in LayerContexts : LMount(i, c)
  \/ \E i \in Layers, c \in LayerContexts : LUpdate(i, c)
  \/ \E i \in Layers : LUnmount(i)
  \/ \E i \in Layers, t \in {TheMap} \cup Groups : LExternalRemove(i, t)

\* The layer hook is not exercised.
LIdle ==
  /\ lPhase = [i \in Layers |-> "init"]
  /\ lCtx = [i \in Layers |-> None]
  /\ lOnMap = [g \in Groups |-> FALSE]
  /\ lMap = {} /\ lGroup = [g \in Groups |-> {}]
  /\ lMap0 = {} /\ lGroup0 = [g \in Groups |-> {}]
  /\ lError = FALSE
  /\ lExt = FALSE
  /\ lCalls = << >>

\* ------------------------------------------------------------------------
\* Pane.tsx
\* ------------------------------------------------------------------------
\* `DEFAULT_PANES.indexOf(name) !== -1`
IsDefaultPane(name) == name \in DEFAULT_PANES

\* map.getPane(name)
getPane(panes, name) == IF name \in DOMAIN panes THEN panes[name] ELSE None

\* `context.map.getPane(name) != null`
PaneExistsNever(panes, name) == FALSE
PaneExists(panes, name) == getPane(panes, name) # None

\* omitPane: the object without the key.
omitPaneKeepsAll(obj, pane) == obj
omitPane(obj, pane) == [n \in DOMAIN obj \ {pane} |-> obj[n]]

\* The element map.createPane(name, container) makes: a new node, number
\* `gen`, inside the parent pane, or inside mapPane when there is none.
NewPaneElement(name, gen, parentPane) ==
  [name |-> name, gen |-> gen,
   container |-> IF parentPane = None THEN "mapPane" ELSE parentPane.name,
   className |-> Null, inDom |-> TRUE]

\* The element Leaflet made for a default pane when the map was built.
DefaultPaneElement(name) ==
  [name |-> name, gen |-> 0, container |-> "mapPane", className |-> Null,
   inDom |-> TRUE]

\* createPane past its two checks: the parent pane is looked up, the
\* backend creates the node and stores it under the name, and the user
\* styling is applied.
createPaneInBackend(name, props, context, panes, gen) ==
  LET parentPaneName == Coalesce(props.pane, context.pane)
      parentPane == IF Truthy(parentPaneName)
                      THEN getPane(panes, parentPaneName) ELSE None
      created == NewPaneElement(name, gen, parentPane)
      element == IF props.className # Null
                   THEN [created EXCEPT !.className = props.className]
                   ELSE created
  IN  [threw |-> FALSE,
       panes |-> [n \in DOMAIN panes \cup {name} |->
                    IF n = name THEN element ELSE panes[n]],
       element |-> element,
       calls |-> << [op |-> "createPane", name |-> name,
                     container |-> created.container] >>]

\* createPane(name, props, context): whether it threw, the registry after
\* it, the element it returns and the backend calls it made.
createPaneUnchecked(name, props, context, panes, gen) ==
  createPaneInBackend(name, props, context, panes, gen)
createPane(name, props, context, panes, gen) ==
  IF IsDefaultPane(name) \/ PaneExists(panes, name)
    THEN [threw |-> TRUE, panes |-> panes, element |-> None, calls |-> << >>]
    ELSE createPaneInBackend(name, props, context, panes, gen)

\* The cleanup removeCreatedPane: the registries after it and its calls.
removeCreatedPane(name, panes, renderers) ==
  LET pane == getPane(panes, name)
  IN  [panes |-> omitPane(panes, name),
       renderers |-> omitPane(renderers, name),
       calls |-> IF pane # None
                   THEN << [op |-> "remove", name |-> name,
                            container |-> pane.container] >>
                   ELSE << >>]

PInit ==
  /\ pPhase = [i \in PaneSlots |-> "init"]
  /\ pProps = [i \in PaneSlots |-> None]
  /\ paneName = [i \in PaneSlots |-> Null]
  /\ paneElement = [i \in PaneSlots |-> None]
  \* the Panes are directly under the map container and unstyled, or are
  \* under a provider that names overlayPane and carry a class name
  /\ pCtx \in [ref : {1}, pane : {Null, "overlayPane"}]
  /\ pClassName = IF pCtx.pane = Null THEN Null ELSE "cls"
  /\ mPanes = [n \in DEFAULT_PANES |-> DefaultPaneElement(n)]
  /\ mPaneRenderers = << >>
  /\ mCreated = 0
  /\ pThrown = Null
  /\ pCalls = << >>

\* The first render of a Pane in slot i: the name is fixed, there is no
\* element yet and nothing is rendered below.  The slots are taken in
\* order, and one whose Pane failed to mount is not used again.
PRender(i, props) ==
  /\ pPhase[i] \in {"init", "unmounted"}
  /\ \A j \in PaneSlots : j < i => pPhase[j] # "init"
  /\ mCreated < MaxPaneCreates
  /\ pPhase' = [pPhase EXCEPT ![i] = "pending"]
  /\ pProps' = [pProps EXCEPT ![i] = props]
  /\ paneName' = [paneName EXCEPT ![i] = props.name]
  /\ paneElement' = [paneElement EXCEPT ![i] = None]
  /\ pCalls' = << >>
  /\ pThrown' = Null
  /\ UNCHANGED <<pCtx, pClassName, mPanes, mPaneRenderers, mCreated>>

\* The effect of the first commit: createPane, then setPaneElement and the
\* render it schedules.  When createPane throws, the effect registers no
\* cleanup and the component is torn down by the error.
PCreate(i) ==
  /\ pPhase[i] = "pending"
  /\ LET res == createPane(paneName[i], pProps[i], pCtx, mPanes, mCreated + 1)
     IN  /\ pPhase' = [pPhase EXCEPT ![i] = IF res.threw THEN "failed"
                                                       ELSE "ready"]
         /\ paneElement' = [paneElement EXCEPT ![i] = res.element]
         /\ mPanes' = res.panes
         /\ mCreated' = IF res.threw THEN mCreated ELSE mCreated + 1
         /\ pCalls' = res.calls
         /\ pThrown' = IF res.threw THEN paneName[i] ELSE Null
         \* the state and the closure holding the props are dropped with
         \* the failed mount
         /\ pProps' = IF res.threw THEN [pProps EXCEPT ![i] = None] ELSE pProps
         /\ paneName' = IF res.threw THEN [paneName EXCEPT ![i] = Null]
                                     ELSE paneName
  /\ UNCHANGED <<pCtx, pClassName, mPaneRenderers>>

\* A ready Pane unmounts: removeCreatedPane runs.
PUnmount(i) ==
  /\ pPhase[i] = "ready"
  /\ LET res == removeCreatedPane(paneName[i], mPanes, mPaneRenderers)
     IN  /\ mPanes' = res.panes
         /\ mPaneRenderers' = res.renderers
         /\ pCalls' = res.calls
  /\ pPhase' = [pPhase EXCEPT ![i] = "unmounted"]
  /\ paneElement' = [paneElement EXCEPT ![i] = None]
  /\ pProps' = [pProps EXCEPT ![i] = None]
  /\ pThrown' = Null
  /\ UNCHANGED <<paneName, pCtx, pClassName, mCreated>>

\* Leaflet draws a vector layer in a registered pane and keeps the renderer
\* in map._paneRenderers.
PDraw(name) ==
  /\ name \in DOMAIN mPanes
  /\ name \notin DOMAIN mPaneRenderers
  /\ name \in CustomPanes
  /\ mPaneRenderers' = [n \in DOMAIN mPaneRenderers \cup {name} |-> "renderer"]
  /\ pCalls' = << >>
  /\ pThrown' = Null
  /\ UNCHANGED <<pPhase, pProps, paneName, paneElement, pCtx, pClassName,
                 mPanes, mCreated>>

PNext ==
  \/ \E i \in PaneSlots, props \in PaneProps(pClassName) : PRender(i, props)
  \/ \E i \in PaneSlots : PCreate(i)
  \/ \E i \in PaneSlots : PUnmount(i)
  \/ \E name \in CustomPanes : PDraw(name)

\* No Pane is exercised.
PIdle ==
  /\ pPhase = [i \in PaneSlots |-> "init"]
  /\ pProps = [i \in PaneSlots |-> None]
  /\ paneName = [i \in PaneSlots |-> Null]
  /\ paneElement = [i \in PaneSlots |-> None]
  /\ pCtx = None
  /\ pClassName = Null
  /\ mPanes = << >>
  /\ mPaneRenderers = << >>
  /\ mCreated = 0
  /\ pThrown = Null
  /\ pCalls = << >>

\* ------------------------------------------------------------------------
\* attribution.ts: useAttribution
\* ------------------------------------------------------------------------
\* A dependency array or a ref that was never set.
Unset == "unset"

\* attributionControl.addAttribution(text): nothing for an empty text.
AttributionAdd(bag, text) ==
  IF text \in DOMAIN bag THEN [bag EXCEPT ![text] = @ + 1] ELSE bag

\* attributionControl.removeAttribution(text): nothing for an empty text or
\* a text that is not displayed.
AttributionRemove(bag, text) ==
  IF text \in DOMAIN bag /\ bag[text] > 0
    THEN [bag EXCEPT ![text] = @ - 1] ELSE bag

AddAttributionCall(text) == [op |-> "addAttribution", text |-> text]
RemoveAttributionCall(text) == [op |-> "removeAttribution", text |-> text]

\* The display after a sequence of calls on the control.
RECURSIVE BagAfter(_, _)
BagAfter(bag, calls) ==
  IF calls = << >> THEN bag
  ELSE LET c == Head(calls)
           b == IF c.op = "addAttribution" THEN AttributionAdd(bag, c.text)
                                           ELSE AttributionRemove(bag, c.text)
       IN  BagAfter(b, Tail(calls))

\* The effect updateAttribution: its calls on the control, in order, and
\* the new attributionRef.
updateAttributionAddFirst(attribution, ref, hasControl) ==
  LET changed == attribution # ref /\ hasControl
  IN  [calls |->
         (IF changed /\ attribution # Null
            THEN << AddAttributionCall(attribution) >> ELSE << >>)
         \o (IF changed /\ ref # Null
               THEN << RemoveAttributionCall(ref) >> ELSE << >>),
       ref |-> attribution]
updateAttribution(attribution, ref, hasControl) ==
  LET changed == attribution # ref /\ hasControl
  IN  [calls |->
         (IF changed /\ ref # Null
            THEN << RemoveAttributionCall(ref) >> ELSE << >>)
         \o (IF changed /\ attribution # Null
               THEN << AddAttributionCall(attribution) >> ELSE << >>),
       ref |-> attribution]

AInit ==
  /\ aPhase = "init"
  /\ aAttribution = Unset
  /\ aOptions = Unset
  /\ aDeps = Unset
  /\ attributionRef = Unset
  /\ aHasControl \in BOOLEAN
  /\ aBag = [t \in AttributionTexts |-> 0]
  /\ aRenders = 0
  /\ aCommits = 0
  /\ aCalls = << >>

\* A render of the component with attribution prop a; the first one
\* constructs the layer with it and initialises the ref.
ARenderRefUnset(a) ==
  /\ aPhase \in {"init", "mounted"}
  /\ aRenders < MaxRenders
  /\ aAttribution' = a
  /\ aOptions' = IF aPhase = "init" THEN a ELSE aOptions
  /\ aPhase' = "rendered"
  /\ aRenders' = aRenders + 1
  /\ aCalls' = << >>
  /\ UNCHANGED <<aDeps, attributionRef, aHasControl, aBag, aCommits>>
ARender(a) ==
  /\ aPhase \in {"init", "mounted"}
  /\ aRenders < MaxRenders
  /\ aAttribution' = a
  /\ aOptions' = IF aPhase = "init" THEN a ELSE aOptions
  /\ attributionRef' = IF aPhase = "init" THEN a ELSE attributionRef
  /\ aPhase' = "rendered"
  /\ aRenders' = aRenders + 1
  /\ aCalls' = << >>
  /\ UNCHANGED <<aDeps, aHasControl, aBag, aCommits>>

\* The commit: updateAttribution runs when the attribution changed (and on
\* the first commit).  On the first commit the layer is then attached, and
\* the backend displays the attribution it was constructed with.
ACommit ==
  /\ aPhase = "rendered"
  /\ LET run == aDeps = Unset \/ aDeps # aAttribution
         res == IF run
                  THEN updateAttribution(aAttribution, attributionRef,
                                         aHasControl)
                  ELSE [calls |-> << >>, ref |-> attributionRef]
         attach == IF aCommits = 0 /\ aHasControl /\ aOptions # Null
                     THEN << AddAttributionCall(aOptions) >> ELSE << >>
     IN  /\ aCalls' = res.calls
         /\ attributionRef' = res.ref
         /\ aBag' = BagAfter(aBag, res.calls \o attach)
  /\ aDeps' = aAttribution
  /\ aCommits' = aCommits + 1
  /\ aPhase' = "mounted"
  /\ UNCHANGED <<aAttribution, aOptions, aHasControl, aRenders>>

\* The render is thrown away before commit.
ADiscard ==
  /\ aPhase = "rendered"
  /\ aPhase' = IF aCommits = 0 THEN "discarded" ELSE "mounted"
  /\ UNCHANGED <<aAttribution, aOptions, aDeps, attributionRef, aHasControl,
                 aBag, aRenders, aCommits, aCalls>>

\* Unmount: the hook has no cleanup; the layer is detached and the backend
\* withdraws the attribution it was constructed with.
AUnmount ==
  /\ aPhase = "mounted"
  /\ aPhase' = "unmounted"
  /\ aCalls' = << >>
  /\ aBag' = IF aHasControl /\ aOptions # Null
               THEN AttributionRemove(aBag, aOptions) ELSE aBag
  /\ UNCHANGED <<aAttribution, aOptions, aDeps, attributionRef, aHasControl,
                 aRenders, aCommits>>

ANext ==
  \/ \E a \in AttributionValues : ARender(a)
  \/ ACommit
  \/ ADiscard
  \/ AUnmount

\* The attribution hook is not exercised.
AIdle ==
  /\ aPhase = "init"
  /\ aAttribution = Unset /\ aOptions = Unset /\ aDeps = Unset
  /\ attributionRef = Unset
  /\ aHasControl = FALSE
  /\ aBag = [t \in AttributionTexts |-> 0]
  /\ aRenders = 0 /\ aCommits = 0
  /\ aCalls = << >>

\* ------------------------------------------------------------------------
\* dom.ts: splitClassName, addClassName, removeClassName, updateClassName
\* ------------------------------------------------------------------------
\* A class string is the sequence of its characters; an absent argument
\* is NoString.
Chars == {"a", "b", "c", " "}
CharSeqs == UNION {[1..n -> Chars] : n \in 0..MaxClassNameLen}
NoString == [null |-> TRUE, chars |-> << >>]
Str(chars) == [null |-> FALSE, chars |-> chars]
ClassNames == {NoString} \cup {Str(chars) : chars \in CharSeqs}

\* The elements handed to updateClassName: none, or one carrying classes.
\* The class "x" is in no class string of the model.
ClassElements ==
  {None} \cup {[classes |-> c] : c \in {{}, {<<"a">>, <<"x">>}, {<<"b">>}}}

\* String.prototype.split(sep) for a one-character separator.
RECURSIVE split(_, _)
split(chars, sep) ==
  IF \A i \in 1..Len(chars) : chars[i] # sep
    THEN << chars >>
    ELSE LET i == CHOOSE k \in 1..Len(chars) :
                     chars[k] = sep /\ \A j \in 1..(k - 1) : chars[j] # sep
         IN  << SubSeq(chars, 1, i - 1) >>
               \o split(SubSeq(chars, i + 1, Len(chars)), sep)

\* Boolean(token): the empty string is falsy.
Boolean(token) == token # << >>

\* splitClassName(className): className.split(' ').filter(Boolean)
splitClassName(chars) == SelectSeq(split(chars, " "), Boolean)

DomAddClass(cls) == [op |-> "addClass", cls |-> cls]
DomRemoveClass(cls) == [op |-> "removeClass", cls |-> cls]

\* The DOM of element after a sequence of DomUtil calls.
RECURSIVE ClassesAfter(_, _)
ClassesAfter(classes, calls) ==
  IF calls = << >> THEN classes
  ELSE LET c == Head(calls)
       IN  ClassesAfter(IF c.op = "addClass" THEN classes \cup {c.cls}
                                              ELSE classes \ {c.cls},
                        Tail(calls))

\* addClassName(element, className): its DomUtil calls.
addClassName(chars) ==
  LET tokens == splitClassName(chars)
  IN  [i \in 1..Len(tokens) |-> DomAddClass(tokens[i])]

\* removeClassName(element, className): its DomUtil calls.
removeClassName(chars) ==
  LET tokens == splitClassName(chars)
  IN  [i \in 1..Len(tokens) |-> DomRemoveClass(tokens[i])]

\* updateClassName(element, prevClassName, nextClassName): its DomUtil
\* calls, in order.
updateClassNameUnguarded(element, prevClassName, nextClassName) ==
  IF element # None
    THEN (IF ~prevClassName.null /\ Len(prevClassName.chars) > 0
            THEN removeClassName(prevClassName.chars) ELSE << >>)
         \o (IF ~nextClassName.null /\ Len(nextClassName.chars) > 0
               THEN addClassName(nextClassName.chars) ELSE << >>)
    ELSE << >>
updateClassName(element, prevClassName, nextClassName) ==
  IF element # None /\ nextClassName # prevClassName
    THEN (IF ~prevClassName.null /\ Len(prevClassName.chars) > 0
            THEN removeClassName(prevClassName.chars) ELSE << >>)
         \o (IF ~nextClassName.null /\ Len(nextClassName.chars) > 0
               THEN addClassName(nextClassName.chars) ELSE << >>)
    ELSE << >>

\* Before the call: the element is chosen.
CInit ==
  /\ cPhase = "init"
  /\ cElement0 \in ClassElements
  /\ cElement = cElement0
  /\ cPrev = NoString
  /\ cNext = NoString
  /\ cCalls = << >>

\* One call updateClassName(element, prev, next).
CUpdateClassName(prev, next) ==
  /\ cPhase = "init"
  /\ LET calls == updateClassName(cElement, prev, next)
     IN  /\ cCalls' = calls
         /\ cElement' = IF cElement = None THEN None
                        ELSE [classes |-> ClassesAfter(cElement.classes, calls)]
  /\ cPrev' = prev
  /\ cNext' = next
  /\ cPhase' = "called"
  /\ UNCHANGED cElement0

CNext ==
  /\ cPhase = "init"
  /\ \E prev, next \in ClassNames : CUpdateClassName(prev, next)

\* updateClassName is not exercised.
CIdle ==
  /\ cPhase = "init"
  /\ cElement0 = None /\ cElement = None
  /\ cPrev = NoString /\ cNext = NoString
  /\ cCalls = << >>


\* ------------------------------------------------------------------------
\* events.ts: useEventHandlers
\* ------------------------------------------------------------------------
\* The handler maps a parent can pass: none, or one of some objects.
HandlerMaps == [ref : 1..NumHandlerMaps]
EventHandlerProps == {None} \cup HandlerMaps
\* The dependency array of an effect that has not run.
NoDeps == [unset |-> TRUE]

OnCall(handlers) == [op |-> "on", handlers |-> handlers]
OffCall(handlers) == [op |-> "off", handlers |-> handlers]

\* instance.on(handlers) and instance.off(handlers) in the backend.
InstanceOn(installed, handlers) ==
  [installed EXCEPT ![handlers] = @ + 1]
InstanceOff(installed, handlers) ==
  [installed EXCEPT ![handlers] = IF @ > 0 THEN @ - 1 ELSE 0]

\* The effect addEventHandlers(): the listeners after it, the ref after it
\* and its calls.
addEventHandlersRefNotSaved(eventHandlers, ref, installed) ==
  [installed |-> IF eventHandlers # None
                   THEN InstanceOn(installed, eventHandlers) ELSE installed,
   ref |-> ref,
   stray |-> FALSE,
   calls |-> IF eventHandlers # None THEN << OnCall(eventHandlers) >>
                                     ELSE << >>]
addEventHandlers(eventHandlers, ref, installed) ==
  [installed |-> IF eventHandlers # None
                   THEN InstanceOn(installed, eventHandlers) ELSE installed,
   ref |-> eventHandlers,
   stray |-> FALSE,
   calls |-> IF eventHandlers # None THEN << OnCall(eventHandlers) >>
                                     ELSE << >>]

\* The cleanup removeEventHandlers(): it reads the ref, not the closure.
removeEventHandlersNothing(ref, installed) ==
  [installed |-> installed, ref |-> ref, stray |-> FALSE, calls |-> << >>]
removeEventHandlers(ref, installed) ==
  [installed |-> IF ref # None THEN InstanceOff(installed, ref)
                               ELSE installed,
   ref |-> None,
   stray |-> ref # None /\ installed[ref] = 0,
   calls |-> IF ref # None THEN << OffCall(ref) >> ELSE << >>]

\* What a commit does to the hook: nothing when the dependencies are the
\* ones of the last commit; otherwise the cleanup of the last run (when
\* there was one) and then the effect.
commitEventHandlers(eventHandlers, deps, ref, installed) ==
  IF deps # NoDeps /\ deps = eventHandlers
    THEN [installed |-> installed, ref |-> ref, stray |-> FALSE,
          calls |-> << >>]
    ELSE LET c == IF deps = NoDeps
                    THEN [installed |-> installed, ref |-> ref,
                          stray |-> FALSE, calls |-> << >>]
                    ELSE removeEventHandlers(ref, installed)
             a == addEventHandlers(eventHandlers, c.ref, c.installed)
         IN  [installed |-> a.installed, ref |-> a.ref,
              stray |-> c.stray, calls |-> c.calls \o a.calls]

HInit ==
  /\ hPhase = "init"
  /\ hHandlers = None
  /\ hDeps = NoDeps
  /\ eventHandlersRef = None
  /\ hInstalled \in [HandlerMaps -> {0}]
  /\ hStray = FALSE
  /\ hOns = 0
  /\ hRenders = 0
  /\ hCalls = << >>

\* A render of the component with the eventHandlers prop h.
HRender(h) ==
  /\ hPhase \in {"init", "mounted"}
  /\ hRenders < MaxRenders
  /\ hHandlers' = h
  /\ hPhase' = "rendered"
  /\ hRenders' = hRenders + 1
  /\ hCalls' = << >>
  /\ UNCHANGED <<hDeps, eventHandlersRef, hInstalled, hStray, hOns>>

\* The commit of the latest render.
HCommit ==
  /\ hPhase = "rendered"
  /\ LET res == commitEventHandlers(hHandlers, hDeps, eventHandlersRef,
                                    hInstalled)
     IN  /\ hInstalled' = res.installed
         /\ eventHandlersRef' = res.ref
         /\ hStray' = (hStray \/ res.stray)
         /\ hCalls' = res.calls
         /\ hOns' = hOns + Cardinality({i \in 1..Len(res.calls) :
                                          res.calls[i].op = "on"})
  /\ hDeps' = hHandlers
  /\ hPhase' = "mounted"
  /\ UNCHANGED <<hHandlers, hRenders>>

\* The latest render is thrown away before commit: no effect runs.
HDiscard ==
  /\ hPhase = "rendered"
  /\ hPhase' = IF hDeps = NoDeps THEN "discarded" ELSE "mounted"
  /\ hHandlers' = IF hDeps = NoDeps THEN None ELSE hDeps
  /\ hCalls' = << >>
  /\ UNCHANGED <<hDeps, eventHandlersRef, hInstalled, hStray, hOns, hRenders>>

\* The component unmounts: the cleanup of the last effect run is called.
HUnmount ==
  /\ hPhase = "mounted"
  /\ LET res == removeEventHandlers(eventHandlersRef, hInstalled)
     IN  /\ hInstalled' = res.installed
         /\ eventHandlersRef' = res.ref
         /\ hStray' = (hStray \/ res.stray)
         /\ hCalls' = res.calls
  /\ hPhase' = "unmounted"
  /\ UNCHANGED <<hHandlers, hDeps, hOns, hRenders>>

HNext ==
  \/ \E h \in EventHandlerProps : HRender(h)
  \/ HCommit
  \/ HDiscard
  \/ HUnmount

\* The event handler hook is not exercised.
HIdle ==
  /\ hPhase = "init"
  /\ hHandlers = None /\ hDeps = NoDeps /\ eventHandlersRef = None
  /\ hInstalled = << >>
  /\ hStray = FALSE
  /\ hOns = 0 /\ hRenders = 0
  /\ hCalls = << >>


\* ------------------------------------------------------------------------
\* control.ts: createControlHook
\* ------------------------------------------------------------------------
\* The corners a control can be put in; props.position can be absent.
Positions == {"topleft", "bottomright"}
PositionProps == {Null} \cup Positions
\* The position Leaflet gives a control constructed without one.
DefaultPosition == "topright"
\* The maps a context can carry, and the contexts a control can read.
Maps == {"map1", "map2"}
ControlContexts == [ref : 1..NumContexts, map : Maps]

AddToCall(map) == [op |-> "addTo", arg |-> map]
RemoveControlCall == [op |-> "remove", arg |-> Null]
SetPositionCall(position) == [op |-> "setPosition", arg |-> position]

\* The dependency arrays of the two effects.
AddControlDepsContext(context, instance) ==
  [map |-> context, instance |-> instance]
AddControlDeps(context, instance) ==
  [map |-> context.map, instance |-> instance]
UpdateControlDeps(instance, position) ==
  [instance |-> instance, position |-> position]

\* The effect addControl and its cleanup removeControl.
addControl(control, context) ==
  [control |-> [control EXCEPT !.map = context.map],
   calls |-> << AddToCall(context.map) >>]
removeControl(control) ==
  [control |-> [control EXCEPT !.map = Null],
   calls |-> << RemoveControlCall >>]

\* The effect updateControl: the control and the ref after it, its calls.
updateControlNoRefCheck(control, position, ref) ==
  IF position # Null
    THEN [control |-> [control EXCEPT !.position = position],
          ref |-> position,
          calls |-> << SetPositionCall(position) >>]
    ELSE [control |-> control, ref |-> ref, calls |-> << >>]
updateControl(control, position, ref) ==
  IF position # Null /\ position # ref
    THEN [control |-> [control EXCEPT !.position = position],
          ref |-> position,
          calls |-> << SetPositionCall(position) >>]
    ELSE [control |-> control, ref |-> ref, calls |-> << >>]

KInit ==
  /\ kPhase = "init"
  /\ kPosition = Null
  /\ kCtx = None
  /\ kElement = None
  /\ positionRef = Null
  /\ kAddDeps = NoDeps
  /\ kUpdDeps = NoDeps
  /\ kCommCtx = None
  /\ kControl = None
  /\ kCreated = 0
  /\ kRenders = 0
  /\ kCommits = 0
  /\ kMoved = FALSE
  /\ kCalls = << >>

\* A render of useLeafletControl with props.position = position under the
\* context c.  The first render constructs the control from the props and
\* initialises positionRef.
KRender(position, c) ==
  /\ kPhase \in {"init", "mounted"}
  /\ kRenders < MaxRenders
  /\ kPosition' = position
  /\ kCtx' = c
  /\ IF kElement = None
       THEN /\ kElement' = createElementObject(kCreated + 1, c)
            /\ kCreated' = kCreated + 1
            /\ kControl' = [map |-> Null,
                            position |-> Coalesce(position, DefaultPosition)]
            /\ positionRef' = position
       ELSE UNCHANGED <<kElement, kCreated, kControl, positionRef>>
  /\ kPhase' = "rendered"
  /\ kRenders' = kRenders + 1
  /\ kCalls' = << >>
  /\ UNCHANGED <<kAddDeps, kUpdDeps, kCommCtx, kCommits, kMoved>>

\* The commit of the latest render: the cleanup of addControl when its
\* dependencies changed, then the effects whose dependencies changed, in
\* the order of the hook.
KCommit ==
  /\ kPhase = "rendered"
  /\ LET addDeps == AddControlDeps(kCtx, kElement.instance)
         updDeps == UpdateControlDeps(kElement.instance, kPosition)
         runAdd == DepsChanged(IF kAddDeps = NoDeps THEN None ELSE kAddDeps,
                               addDeps)
         runUpd == DepsChanged(IF kUpdDeps = NoDeps THEN None ELSE kUpdDeps,
                               updDeps)
         r == IF runAdd /\ kAddDeps # NoDeps
                THEN removeControl(kControl)
                ELSE [control |-> kControl, calls |-> << >>]
         a == IF runAdd THEN addControl(r.control, kCtx)
                        ELSE [control |-> r.control, calls |-> << >>]
         u == IF runUpd THEN updateControl(a.control, kPosition, positionRef)
                        ELSE [control |-> a.control, ref |-> positionRef,
                              calls |-> << >>]
     IN  /\ kControl' = u.control
         /\ positionRef' = u.ref
         /\ kCalls' = r.calls \o a.calls \o u.calls
         /\ kMoved' = (kMoved \/ u.calls # << >>)
         /\ kAddDeps' = addDeps
         /\ kUpdDeps' = updDeps
  /\ kCommCtx' = kCtx
  /\ kCommits' = kCommits + 1
  /\ kPhase' = "mounted"
  /\ UNCHANGED <<kPosition, kCtx, kElement, kCreated, kRenders>>

\* The latest render is thrown away before commit: no effect runs.
KDiscard ==
  /\ kPhase = "rendered"
  /\ kPhase' = IF kCommits = 0 THEN "discarded" ELSE "mounted"
  /\ kCalls' = << >>
  /\ UNCHANGED <<kPosition, kCtx, kElement, positionRef, kAddDeps, kUpdDeps,
                 kCommCtx, kControl, kCreated, kRenders, kCommits, kMoved>>

\* The component unmounts: removeControl runs.
KUnmount ==
  /\ kPhase = "mounted"
  /\ LET r == removeControl(kControl)
     IN  kControl' = r.control /\ kCalls' = r.calls
  /\ kPhase' = "unmounted"
  /\ UNCHANGED <<kPosition, kCtx, kElement, positionRef, kAddDeps, kUpdDeps,
                 kCommCtx, kCreated, kRenders, kCommits, kMoved>>

KNext ==
  \/ \E position \in PositionProps, c \in ControlContexts :
        KRender(position, c)
  \/ KCommit
  \/ KDiscard
  \/ KUnmount

\* No control is exercised.
KIdle ==
  /\ kPhase = "init"
  /\ kPosition = Null /\ kCtx = None /\ kElement = None
  /\ positionRef = Null
  /\ kAddDeps = NoDeps /\ kUpdDeps = NoDeps /\ kCommCtx = None
  /\ kControl = None
  /\ kCreated = 0 /\ kRenders = 0 /\ kCommits = 0
  /\ kMoved = FALSE
  /\ kCalls = << >>


\* ------------------------------------------------------------------------
\* path.ts: usePathOptions
\* ------------------------------------------------------------------------
\* The style objects a parent can pass as pathOptions, and the props
\* objects carrying one of them or none.
PathOptionObjects == [ref : 1..NumPathOptions]
PathProps == [ref : 1..NumUserProps,
              pathOptions : {None} \cup PathOptionObjects]

\* The object the literal {} allocates in the commit number n.
EmptyOptions(n) == [empty |-> n]

SetStyleCall(options) == [op |-> "setStyle", options |-> options]

\* The effect updatePathOptions: its calls and the ref after it; `fresh`
\* is the object a {} of this run is.
updatePathOptions(props, ref, fresh) ==
  IF props.pathOptions # ref
    THEN LET options == IF props.pathOptions # None THEN props.pathOptions
                                                    ELSE fresh
         IN  [calls |-> << SetStyleCall(options) >>, ref |-> options]
    ELSE [calls |-> << >>, ref |-> ref]

SInit ==
  /\ sPhase = "init"
  /\ sProps = None
  /\ sDeps = NoDeps
  /\ optionsRef = None
  /\ sStyle = None
  /\ sRenders = 0
  /\ sCommits = 0
  /\ sCalls = << >>

\* A render of the path component with the props object p.
SRender(p) ==
  /\ sPhase \in {"init", "mounted"}
  /\ sRenders < MaxRenders
  /\ sProps' = p
  /\ sPhase' = "rendered"
  /\ sRenders' = sRenders + 1
  /\ sCalls' = << >>
  /\ UNCHANGED <<sDeps, optionsRef, sStyle, sCommits>>

\* The commit of the latest render: updatePathOptions runs when the props
\* object is not the one of the last commit.
SCommit ==
  /\ sPhase = "rendered"
  /\ LET res == IF sDeps = NoDeps \/ sDeps # sProps
                  THEN updatePathOptions(sProps, optionsRef,
                                         EmptyOptions(sCommits + 1))
                  ELSE [calls |-> << >>, ref |-> optionsRef]
     IN  /\ sCalls' = res.calls
         /\ optionsRef' = res.ref
         /\ sStyle' = IF res.calls # << >> THEN res.calls[1].options
                                           ELSE sStyle
  /\ sDeps' = sProps
  /\ sCommits' = sCommits + 1
  /\ sPhase' = "mounted"
  /\ UNCHANGED <<sProps, sRenders>>

\* The latest render is thrown away before commit: no effect runs.
SDiscard ==
  /\ sPhase = "rendered"
  /\ sPhase' = IF sCommits = 0 THEN "discarded" ELSE "mounted"
  /\ sCalls' = << >>
  /\ UNCHANGED <<sProps, sDeps, optionsRef, sStyle, sRenders, sCommits>>

\* The component unmounts: the hook has no cleanup.
SUnmount ==
  /\ sPhase = "mounted"
  /\ sPhase' = "unmounted"
  /\ sCalls' = << >>
  /\ UNCHANGED <<sProps, sDeps, optionsRef, sStyle, sRenders, sCommits>>

SNext ==
  \/ \E p \in PathProps : SRender(p)
  \/ SCommit
  \/ SDiscard
  \/ SUnmount

\* The path options hook is not exercised.
SIdle ==
  /\ sPhase = "init"
  /\ sProps = None /\ sDeps = NoDeps /\ optionsRef = None /\ sStyle = None
  /\ sRenders = 0 /\ sCommits = 0
  /\ sCalls = << >>


\* ------------------------------------------------------------------------
\* context.ts: createLeafletContext, extendContext, useLeafletContext
\* ------------------------------------------------------------------------
CONTEXT_VERSION == 1

\* A property that is present with the value undefined.
Undefined == "undefined"

\* The objects a caller can pass as `extra`: each key is absent, or
\* present with a value.
ExtraMaps == [{"map"} -> {"map2"}]
ExtraContainers == [{"layerContainer"} -> {"g1"}]
ExtraPanes == [{"pane"} -> {Undefined, "paneA"}]
Extras ==
  {m @@ c @@ p : m \in {<< >>} \cup ExtraMaps,
                 c \in {<< >>} \cup ExtraContainers,
                 p \in {<< >>} \cup ExtraPanes}

\* createLeafletContext(map): Object.freeze({__version, map})
createLeafletContext(map) ==
  [frozen |-> TRUE,
   fields |-> ("__version" :> CONTEXT_VERSION) @@ ("map" :> map)]

\* extendContext(source, extra): Object.freeze({...source, ...extra})
extendContextSourceWins(source, extra) ==
  [frozen |-> TRUE, fields |-> source.fields @@ extra]
extendContext(source, extra) ==
  [frozen |-> TRUE, fields |-> extra @@ source.fields]

\* useLeafletContext() when useContext(LeafletContext) gives `context`,
\* the identity of a context object or 0 for null.
useLeafletContextUnchecked(context) ==
  [threw |-> FALSE, context |-> context]
useLeafletContext(context) ==
  IF context = 0
    THEN [threw |-> TRUE, context |-> 0]
    ELSE [threw |-> FALSE, context |-> context]

\* useContext(LeafletContext) under the providers above the component,
\* outermost first: the value of the nearest, null when there is none.
useContext(providers) ==
  IF providers = << >> THEN 0 ELSE providers[Len(providers)]

\* The component hooks and what their render does after reading the
\* context; the Pane creates its backend node in the effect of its commit.
ComponentHooks ==
  {"useLayer", "usePath", "useLeafletControl", "useDivOverlay",
   "PaneComponent"}
RenderSteps(hook) ==
  IF hook = "PaneComponent" THEN << "useMemo" >> ELSE << "createElement" >>
CommitSteps(hook) ==
  IF hook = "PaneComponent" THEN << "createPane" >> ELSE << "addLayer" >>

XInit ==
  /\ xHeap = << >>
  /\ xLast = [op |-> Null]
  /\ xHook = Null
  /\ xContext = 0
  /\ xResult = [threw |-> FALSE, context |-> 0]
  /\ xSteps = << >>

\* The map container makes the root context of a map.
XCreateLeafletContext(map) ==
  /\ Len(xHeap) < MaxContextObjects
  /\ xHeap' = Append(xHeap, createLeafletContext(map))
  /\ xLast' = [op |-> "createLeafletContext", map |-> map]
  /\ UNCHANGED <<xHook, xContext, xResult, xSteps>>

\* A component derives a context from the one with identity source.
XExtendContext(source, extra) ==
  /\ Len(xHeap) < MaxContextObjects
  /\ source \in 1..Len(xHeap)
  /\ xHeap' = Append(xHeap, extendContext(xHeap[source], extra))
  /\ xLast' = [op |-> "extendContext", source |-> source, extra |-> extra]
  /\ UNCHANGED <<xHook, xContext, xResult, xSteps>>

\* Pane.tsx, PaneComponent: the context the Pane publishes to its children,
\* `useMemo(() => ({ ...context, pane: paneName }), [context])`, a plain
\* object literal.
PaneContext(context, name) ==
  [frozen |-> FALSE, fields |-> ("pane" :> name) @@ context.fields]

\* A Pane named paneName is rendered under the context with identity
\* source and derives the context of its children.
XPaneContext(source, name) ==
  /\ Len(xHeap) < MaxContextObjects
  /\ source \in 1..Len(xHeap)
  /\ xHeap' = Append(xHeap, PaneContext(xHeap[source], name))
  /\ xLast' = [op |-> "PaneComponent", source |-> source, name |-> name]
  /\ UNCHANGED <<xHook, xContext, xResult, xSteps>>

\* Some code assigns to a key of a context object: a frozen object
\* refuses (a TypeError in module code), another one takes the value.
XAssign(id, key, value) ==
  /\ id \in 1..Len(xHeap)
  /\ xLast.op # "assign"
  /\ xHeap' = IF xHeap[id].frozen THEN xHeap
              ELSE [xHeap EXCEPT ![id].fields = (key :> value) @@ @]
  /\ xLast' = [op |-> "assign", id |-> id, threw |-> xHeap[id].frozen]
  /\ UNCHANGED <<xHook, xContext, xResult, xSteps>>

\* The first render of a component of the given hook under the given
\* providers: useLeafletContext, then the rest of the render.
XRender(hook, providers) ==
  /\ \A i \in 1..Len(providers) : providers[i] \in 1..Len(xHeap)
  /\ LET res == useLeafletContext(useContext(providers))
     IN  /\ xResult' = res
         /\ xSteps' = << "useLeafletContext" >>
                        \o (IF res.threw THEN << "throw" >>
                                         ELSE RenderSteps(hook))
  /\ xHook' = hook
  /\ xContext' = useContext(providers)
  /\ UNCHANGED <<xHeap, xLast>>

\* The commit of that render, when it did not throw: the effects run.
XCommit ==
  /\ xHook # Null
  /\ ~xResult.threw
  /\ Len(xSteps) = 2
  /\ xSteps' = xSteps \o CommitSteps(xHook)
  /\ UNCHANGED <<xHeap, xLast, xHook, xContext, xResult>>

XNext ==
  \/ \E map \in Maps : XCreateLeafletContext(map)
  \/ \E source \in 1..MaxContextObjects, extra \in Extras :
        XExtendContext(source, extra)
  \/ \E source \in 1..MaxContextObjects : XPaneContext(source, "paneA")
  \/ \E id \in 1..MaxContextObjects : XAssign(id, "pane", "paneB")
  \/ \E hook \in ComponentHooks,
        providers \in UNION {[1..n -> 1..MaxContextObjects] : n \in 0..2} :
        XRender(hook, providers)
  \/ XCommit

\* No context is made or read.
XIdle ==
  /\ xHeap = << >>
  /\ xLast = [op |-> Null]
  /\ xHook = Null
  /\ xContext = 0
  /\ xResult = [threw |-> FALSE, context |-> 0]
  /\ xSteps = << >>


\* ------------------------------------------------------------------------
\* path.ts: createPathHook; component.ts: createContainerComponent;
\* Circle.tsx
\* ------------------------------------------------------------------------
\* The props a parent passes to the Circle: it gives no pane and there is
\* no Pane above it, so that withPane returns the props object itself.
PathHandlerMaps == [ref : {1, 2}]
CircleProps == [ref : 1..NumUserProps,
                eventHandlers : {None} \cup PathHandlerMaps,
                pathOptions : {None, [ref |-> 1]}]
\* The ambient contexts: the root context of the map, and the ones the
\* layer group g1 above the Circle derives from it on its renders.
AmbientContexts ==
  {[ref |-> r] @@ (IF r = 1
                     THEN createLeafletContext("map1")
                     ELSE extendContext(createLeafletContext("map1"),
                                        [layerContainer |-> "g1"])) :
     r \in 1..NumContexts}

\* context.layerContainer and context.pane as the hooks read them: null
\* for a key that is absent or undefined.
ContextProps(context) ==
  [k \in {"layerContainer", "pane"} |->
     IF k \in DOMAIN context.fields /\ context.fields[k] # Undefined
       THEN context.fields[k] ELSE Null]

\* createCircle: the handle of a new circle, whose context names the
\* circle as the overlay container.
createCircle(id, props, ctx) ==
  createElementObject(id, extendContext(ctx, [overlayContainer |-> id]))

\* ContainerComponent: the value of the provider around its children.
ContainerContextAmbient(element, context) == context
ContainerContext(element, context) == element.context

\* The dependency arrays of the four effects of usePath, in hook order.
usePathDeps(element, props, context) ==
  [element |-> <<element.instance, props, context>>,
   events |-> <<element, props.eventHandlers>>,
   layer |-> <<context, element>>,
   options |-> <<element, props>>]

\* The refs of the hooks and the backend, as a commit threads them through
\* the cleanups and the effects.
PathState ==
  [installed |-> uInstalled, ref |-> uHandlersRef, map |-> uMap,
   group |-> uGroup, propsRef |-> uPropsRef, optionsRef |-> uOptionsRef,
   calls |-> << >>]

\* The cleanups of a commit or of the unmount, in hook order:
\* removeEventHandlers, then removeLayer with the context it captured.
usePathCleanupsLayerOnly(st, instance, context, events, layer) ==
  LET b0 == [map |-> st.map, group |-> st.group, error |-> FALSE,
             calls |-> << >>]
      b == IF layer THEN removeLayer(b0, ContextProps(context), instance)
                    ELSE b0
  IN  [st EXCEPT !.map = b.map, !.group = b.group, !.calls = @ \o b.calls]
usePathCleanups(st, instance, context, events, layer) ==
  LET h == IF events THEN removeEventHandlers(st.ref, st.installed)
                     ELSE [installed |-> st.installed, ref |-> st.ref,
                           calls |-> << >>]
      b0 == [map |-> st.map, group |-> st.group, error |-> FALSE,
             calls |-> << >>]
      b == IF layer THEN removeLayer(b0, ContextProps(context), instance)
                    ELSE b0
  IN  [st EXCEPT !.installed = h.installed, !.ref = h.ref,
                 !.map = b.map, !.group = b.group,
                 !.calls = @ \o h.calls \o b.calls]

\* The effects of a commit, in hook order: updateElementProps,
\* addEventHandlers, addLayer, updatePathOptions; run names the effects
\* whose dependencies changed.
usePathEffects(st, instance, props, context, run, fresh) ==
  LET e == IF run.element
             THEN updateElementProps(instance, props, st.propsRef)
             ELSE [calls |-> << >>, propsRef |-> st.propsRef]
      h == IF run.events
             THEN addEventHandlers(props.eventHandlers, st.ref, st.installed)
             ELSE [installed |-> st.installed, ref |-> st.ref,
                   calls |-> << >>]
      b0 == [map |-> st.map, group |-> st.group, error |-> FALSE,
             calls |-> << >>]
      b == IF run.layer THEN addLayer(b0, ContextProps(context), instance)
                        ELSE b0
      o == IF run.options THEN updatePathOptions(props, st.optionsRef, fresh)
                          ELSE [calls |-> << >>, ref |-> st.optionsRef]
  IN  [installed |-> h.installed, ref |-> h.ref, map |-> b.map,
       group |-> b.group, propsRef |-> e.propsRef, optionsRef |-> o.ref,
       calls |-> st.calls \o e.calls \o h.calls \o b.calls \o o.calls]

UStore(st) ==
  /\ uInstalled' = st.installed
  /\ uHandlersRef' = st.ref
  /\ uMap' = st.map
  /\ uGroup' = st.group
  /\ uPropsRef' = st.propsRef
  /\ uOptionsRef' = st.optionsRef
  /\ uCalls' = st.calls

UInit ==
  /\ uPhase = "init"
  /\ uProps = None /\ uCtx = None /\ uElement = None
  /\ uPropsRef = None /\ uHandlersRef = None /\ uOptionsRef = None
  /\ uDeps = None
  /\ uInstalled = [h \in PathHandlerMaps |-> 0]
  /\ uMap = {} /\ uGroup = [g \in Groups |-> {}]
  /\ uPublished = None
  /\ uRenders = 0 /\ uCreated = 0
  /\ uAttached = FALSE
  /\ uCalls = << >>

\* A render of the Circle with props p under the ambient context c: the
\* first one constructs the circle and its handle.
URender(p, c) ==
  /\ uPhase \in {"init", "mounted"}
  /\ uRenders < MaxRenders
  /\ LET create == NeedsCreate(uElement)
         element == IF create THEN createCircle(uCreated + 1, p, c)
                              ELSE uElement
     IN  /\ uElement' = element
         /\ uCreated' = IF create THEN uCreated + 1 ELSE uCreated
         /\ uPublished' = ContainerContext(element, c)
  /\ uProps' = p
  /\ uCtx' = c
  \* useRef(props) keeps the value of the first render
  /\ uPropsRef' = IF uPhase = "init" THEN p ELSE uPropsRef
  /\ uPhase' = "rendered"
  /\ uRenders' = uRenders + 1
  /\ uCalls' = << >>
  /\ UNCHANGED <<uHandlersRef, uOptionsRef, uDeps, uInstalled, uMap, uGroup,
                 uAttached>>

\* The commit of the latest render: the cleanups of the effects whose
\* dependencies changed, then these effects.
UCommit ==
  /\ uPhase = "rendered"
  /\ LET deps == usePathDeps(uElement, uProps, uCtx)
         run == [k \in DOMAIN deps |->
                   uDeps = None \/ uDeps[k] # deps[k]]
         st1 == IF uDeps = None THEN PathState
                ELSE usePathCleanups(PathState, uElement.instance,
                                     uDeps.layer[1], run.events, run.layer)
         st2 == usePathEffects(st1, uElement.instance, uProps, uCtx, run,
                               EmptyOptions(uRenders))
     IN  /\ UStore(st2)
         /\ uDeps' = deps
         /\ uAttached' = (uAttached \/ run.layer)
  /\ uPhase' = "mounted"
  /\ UNCHANGED <<uProps, uCtx, uElement, uPublished, uRenders, uCreated>>

\* The latest render is thrown away before commit (a sibling or a
\* descendant threw): no effect runs.  A first render leaves the circle it
\* constructed behind; a mounted instance keeps its committed state.
UDiscard ==
  /\ uPhase = "rendered"
  /\ uPhase' = IF uDeps = None THEN "discarded" ELSE "mounted"
  /\ uProps' = IF uDeps = None THEN None ELSE uDeps.options[2]
  /\ uCtx' = IF uDeps = None THEN None ELSE uDeps.layer[1]
  /\ uPropsRef' = IF uDeps = None THEN None ELSE uPropsRef
  /\ uPublished' = IF uDeps = None THEN None ELSE uPublished
  /\ uCalls' = << >>
  /\ UNCHANGED <<uElement, uHandlersRef, uOptionsRef, uDeps, uInstalled,
                 uMap, uGroup, uRenders, uCreated, uAttached>>

\* The component unmounts: the cleanups of all effects run, and the
\* handle is dropped with the hook state.
UUnmount ==
  /\ uPhase = "mounted"
  /\ UStore(usePathCleanups(PathState, uElement.instance, uDeps.layer[1],
                            TRUE, TRUE))
  /\ uPhase' = "unmounted"
  /\ uPublished' = None
  /\ UNCHANGED <<uProps, uCtx, uElement, uDeps, uRenders, uCreated,
                 uAttached>>

UNext ==
  \/ \E p \in CircleProps, c \in AmbientContexts : URender(p, c)
  \/ UCommit
  \/ UDiscard
  \/ UUnmount

\* No path component is exercised.
UIdle ==
  /\ uPhase = "init"
  /\ uProps = None /\ uCtx = None /\ uElement = None
  /\ uPropsRef = None /\ uHandlersRef = None /\ uOptionsRef = None
  /\ uDeps = None
  /\ uInstalled = << >>
  /\ uMap = {} /\ uGroup = << >>
  /\ uPublished = None
  /\ uRenders = 0 /\ uCreated = 0
  /\ uAttached = FALSE
  /\ uCalls = << >>



\* ------------------------------------------------------------------------
\* Pane.tsx: PaneComponent over its renders
\* ------------------------------------------------------------------------
\* The props of the Pane: a name, reserved or not, and children or none.
PaneRenderProps == [name : CustomPanes \cup {"tilePane"}, pane : {Null},
                    className : {Null}, children : BOOLEAN]

\* `const [paneName] = useState(props.name)`: the state, Null before the
\* first render.
PaneNameStateFollowsProps(state, props) == props.name
PaneNameState(state, props) == IF state = Null THEN props.name ELSE state

\* The return value of PaneComponent: the provider of the portal, or null.
PaneOutputAlways(props, element, newContext) ==
  IF props.children THEN newContext ELSE None
PaneOutput(props, element, newContext) ==
  IF props.children /\ element # None THEN newContext ELSE None

QInit ==
  /\ qPhase = "init"
  /\ qProps = None /\ qCtx = None
  /\ qPaneName = Null
  /\ qPaneElement = None
  /\ qEffect = None
  /\ qMemoDeps = None /\ qNewContext = None
  /\ qOutput = None
  /\ qPanes = [n \in DEFAULT_PANES |-> DefaultPaneElement(n)]
  /\ qRenders = 0
  /\ qCalls = << >>

\* A render of the Pane with the given props under the ambient context c:
\* the first one of the instance, or a later one of the ready Pane.
QRender(props, c) ==
  /\ qPhase \in {"init", "ready"}
  /\ qRenders < MaxRenders
  /\ LET name == PaneNameState(qPaneName, props)
         memo == IF qMemoDeps = None \/ qMemoDeps # c
                   THEN PaneContext(c, name) ELSE qNewContext
     IN  /\ qPaneName' = name
         /\ qMemoDeps' = c
         /\ qNewContext' = memo
         /\ qOutput' = PaneOutput(props, qPaneElement, memo)
  /\ qProps' = props
  /\ qCtx' = c
  \* the effect has no dependencies: it keeps the closure of the first render
  /\ qEffect' = IF qPhase = "init" THEN [props |-> props, context |-> c]
                                   ELSE qEffect
  /\ qPhase' = IF qPhase = "init" THEN "pending" ELSE "ready"
  /\ qRenders' = qRenders + 1
  /\ qCalls' = << >>
  /\ UNCHANGED <<qPaneElement, qPanes>>

\* The effect of the first commit: createPane, then setPaneElement and the
\* render it causes.  When createPane throws the component is torn down.
QCreate ==
  /\ qPhase = "pending"
  /\ LET res == createPane(qPaneName, qEffect.props,
                           ContextProps(qEffect.context), qPanes, 1)
     IN  /\ qPhase' = IF res.threw THEN "failed" ELSE "ready"
         /\ qPaneElement' = res.element
         /\ qPanes' = res.panes
         /\ qCalls' = res.calls
         /\ qOutput' = IF res.threw THEN None
                       ELSE PaneOutput(qProps, res.element, qNewContext)
  /\ UNCHANGED <<qProps, qCtx, qPaneName, qEffect, qMemoDeps, qNewContext,
                 qRenders>>

\* The ready Pane unmounts: removeCreatedPane runs.
QUnmount ==
  /\ qPhase = "ready"
  /\ LET res == removeCreatedPane(qPaneName, qPanes, << >>)
     IN  /\ qPanes' = res.panes
         /\ qCalls' = res.calls
  /\ qPhase' = "unmounted"
  /\ qPaneElement' = None
  /\ qOutput' = None
  /\ UNCHANGED <<qProps, qCtx, qPaneName, qEffect, qMemoDeps, qNewContext,
                 qRenders>>

QNext ==
  \/ \E props \in PaneRenderProps, c \in AmbientContexts : QRender(props, c)
  \/ QCreate
  \/ QUnmount

\* No Pane is rendered.
QIdle ==
  /\ qPhase = "init"
  /\ qProps = None /\ qCtx = None
  /\ qPaneName = Null
  /\ qPaneElement = None
  /\ qEffect = None
  /\ qMemoDeps = None /\ qNewContext = None
  /\ qOutput = None
  /\ qPanes = << >>
  /\ qRenders = 0
  /\ qCalls = << >>



\* ------------------------------------------------------------------------
\* component.ts: createDivOverlayComponent
\* ------------------------------------------------------------------------
\* The children a parent passes to the overlay, by reference.
OverlayChildren == 1..NumUserProps
\* The overlay instance the element hook made on the first render.
OverlayInstance == [overlay |-> 1]

\* The effect updateOverlay: its calls on the instance.
updateOverlayAlways(instance, isOpen) ==
  << [op |-> "update", instance |-> instance] >>
updateOverlay(instance, isOpen) ==
  IF isOpen THEN << [op |-> "update", instance |-> instance] >> ELSE << >>

OInit ==
  /\ oPhase = "init"
  /\ oIsOpen = FALSE
  /\ oView = None
  /\ oDeps = None
  /\ oRenders = 0
  /\ oCommits = 0
  /\ oCalls = << >>

\* The lifecycle hook of the overlay calls setOpen when the backend opens
\* or closes the overlay of the mounted component.
OSetOpen(open) ==
  /\ oPhase = "mounted"
  /\ oIsOpen # open
  /\ oIsOpen' = open
  /\ oCalls' = << >>
  /\ UNCHANGED <<oPhase, oView, oDeps, oRenders, oCommits>>

\* A render of OverlayComponent with the given children.
ORender(children) ==
  /\ oPhase \in {"init", "mounted"}
  /\ oRenders < MaxRenders
  /\ oView' = [isOpen |-> oIsOpen, children |-> children]
  /\ oPhase' = "rendered"
  /\ oRenders' = oRenders + 1
  /\ oCalls' = << >>
  /\ UNCHANGED <<oIsOpen, oDeps, oCommits>>

\* The commit of the latest render: updateOverlay runs when one of
\* [instance, isOpen, props.children] changed.
OCommit ==
  /\ oPhase = "rendered"
  /\ LET deps == [instance |-> OverlayInstance, isOpen |-> oView.isOpen,
                  children |-> oView.children]
     IN  /\ oCalls' = IF DepsChanged(oDeps, deps)
                        THEN updateOverlay(OverlayInstance, oView.isOpen)
                        ELSE << >>
         /\ oDeps' = deps
  /\ oCommits' = oCommits + 1
  /\ oPhase' = "mounted"
  /\ UNCHANGED <<oIsOpen, oView, oRenders>>

\* The latest render is thrown away before commit; the state is kept.
ODiscard ==
  /\ oPhase = "rendered"
  /\ oCommits > 0
  /\ oPhase' = "mounted"
  /\ oCalls' = << >>
  /\ UNCHANGED <<oIsOpen, oView, oDeps, oRenders, oCommits>>

\* The component unmounts: updateOverlay has no cleanup.
OUnmount ==
  /\ oPhase = "mounted"
  /\ oPhase' = "unmounted"
  /\ oCalls' = << >>
  /\ UNCHANGED <<oIsOpen, oView, oDeps, oRenders, oCommits>>

ONext ==
  \/ \E open \in BOOLEAN : OSetOpen(open)
  \/ \E children \in OverlayChildren : ORender(children)
  \/ OCommit
  \/ ODiscard
  \/ OUnmount

\* No overlay is exercised.
OIdle ==
  /\ oPhase = "init"
  /\ oIsOpen = FALSE
  /\ oView = None
  /\ oDeps = None
  /\ oRenders = 0
  /\ oCommits = 0
  /\ oCalls = << >>



\* ------------------------------------------------------------------------
\* MapContainer.tsx: MapContainerComponent
\* ------------------------------------------------------------------------
\* The props of the container: the options object and the children, by
\* reference, whether a placeholder is given, and the initial view: center
\* and zoom, or bounds, or neither.
MapContainerProps == [ref : 1..NumUserProps, placeholder : BOOLEAN,
                      children : [ref : 1..NumUserProps],
                      view : {"center", "bounds", Null}]

\* The callback ref mapRef(node), with the props and the context its
\* closure holds: the map it constructs and the context it passes to
\* setContext, if any.
mapRef(node, props, context, id) ==
  IF node # None /\ context = None
    THEN [calls |-> << [op |-> "new Map", map |-> id] >>
                    \o (IF props.view = "center"
                          THEN << [op |-> "setView", map |-> id] >>
                          ELSE IF props.view = "bounds"
                            THEN << [op |-> "fitBounds", map |-> id] >>
                            ELSE << >>),
          context |-> createLeafletContext(id)]
    ELSE [calls |-> << >>, context |-> None]

\* The cleanup of the effect, `context?.map.remove()`.
removeMap(context) ==
  IF context # None /\ context # NoDeps
    THEN << [op |-> "remove", map |-> context.fields.map] >>
    ELSE << >>

\* What the render puts inside the div.
MapContainerOutput(context, props) ==
  IF context # None
    THEN [provider |-> context, children |-> props.children]
    ELSE [provider |-> None, children |-> None,
          placeholder |-> props.placeholder]

RInit ==
  /\ rPhase = "init"
  /\ rProps = None
  /\ rContext = None /\ rSeen = None
  /\ rCleanup = NoDeps
  /\ rOutput = None
  /\ rMaps = 0 /\ rRemoved = 0
  /\ rRenders = 0 /\ rCommits = 0
  /\ rCalls = << >>

\* A render of the container.
RRender(props) ==
  /\ rPhase \in {"init", "mounted"}
  /\ rRenders < MaxRenders
  /\ rProps' = props
  /\ rSeen' = rContext
  /\ rOutput' = MapContainerOutput(rContext, props)
  /\ rPhase' = "rendered"
  /\ rRenders' = rRenders + 1
  /\ rCalls' = << >>
  /\ UNCHANGED <<rContext, rCleanup, rMaps, rRemoved, rCommits>>

\* The commit of the latest render.  The first one attaches the ref:
\* mapRef(node) runs, with the closure of the first render (useCallback
\* has no dependencies).  The effect runs when the context the render read
\* is not the one of the last commit, after the cleanup of the last one.
RCommit ==
  /\ rPhase = "rendered"
  /\ LET ref == IF rCommits = 0
                  THEN mapRef([node |-> "div"], rProps, None, rMaps + 1)
                  ELSE [calls |-> << >>, context |-> None]
         run == rCleanup = NoDeps \/ rCleanup # rSeen
         cleanup == IF run THEN removeMap(rCleanup) ELSE << >>
     IN  /\ rCalls' = ref.calls \o cleanup
         /\ rMaps' = IF ref.context # None THEN rMaps + 1 ELSE rMaps
         /\ rRemoved' = rRemoved + Len(cleanup)
         /\ rContext' = IF ref.context # None THEN ref.context ELSE rContext
  /\ rCleanup' = rSeen
  /\ rCommits' = rCommits + 1
  /\ rPhase' = "mounted"
  /\ UNCHANGED <<rProps, rSeen, rOutput, rRenders>>

\* The latest render is thrown away because a descendant or a sibling
\* threw.  A first render leaves nothing behind; the error tears a mounted
\* container down: the cleanup of its last commit runs and the ref is
\* detached, mapRef(null).
RDiscard ==
  /\ rPhase = "rendered"
  /\ rPhase' = IF rCommits = 0 THEN "discarded" ELSE "unmounted"
  /\ LET cleanup == IF rCommits = 0 THEN << >> ELSE removeMap(rCleanup)
     IN  /\ rCalls' = cleanup \o mapRef(None, rProps, None, rMaps + 1).calls
         /\ rRemoved' = rRemoved + Len(cleanup)
  /\ rOutput' = None
  /\ UNCHANGED <<rProps, rContext, rSeen, rCleanup, rMaps, rRenders,
                 rCommits>>

\* The container unmounts: the cleanup of the last commit runs and the ref
\* is detached, mapRef(null).
RUnmount ==
  /\ rPhase = "mounted"
  \* the render setContext caused has been committed
  /\ rCleanup = rContext
  /\ LET cleanup == removeMap(rCleanup)
     IN  /\ rCalls' = cleanup \o mapRef(None, rProps, None, rMaps + 1).calls
         /\ rRemoved' = rRemoved + Len(cleanup)
  /\ rPhase' = "unmounted"
  /\ rOutput' = None
  /\ UNCHANGED <<rProps, rContext, rSeen, rCleanup, rMaps, rRenders,
                 rCommits>>

RNext ==
  \/ \E props \in MapContainerProps : RRender(props)
  \/ RCommit
  \/ RDiscard
  \/ RUnmount

\* No map container is exercised.
RIdle ==
  /\ rPhase = "init"
  /\ rProps = None
  /\ rContext = None /\ rSeen = None
  /\ rCleanup = NoDeps
  /\ rOutput = None
  /\ rMaps = 0 /\ rRemoved = 0
  /\ rRenders = 0 /\ rCommits = 0
  /\ rCalls = << >>



\* ------------------------------------------------------------------------
\* pane.ts: withPane over props objects with identity
\* ------------------------------------------------------------------------
\* The props a layer component is given: a pane and another option.
LayerOptions ==
  [ref : 1..NumUserProps, pane : PropPanes, attribution : {Null, "A"}]

\* No call yet.
NoPaneCall ==
  [n |-> 0, props |-> 0, context |-> [ref |-> 0, pane |-> Null],
   result |-> 0]

WInit ==
  /\ wHeap \in [1..NumUserProps -> LayerOptions]
  /\ \A k \in 1..NumUserProps : wHeap[k].ref = k
  /\ wLast = NoPaneCall

\* withPane(props, context) for the props object at reference k: the
\* object it returns is stored under its reference, a new one for the
\* object a spread allocates.
WApply(k, c) ==
  LET res == withPane(wHeap[k], c, Len(wHeap) + 1)
  IN  /\ wHeap' = IF res.ref > Len(wHeap)
                    THEN Append(wHeap, res)
                    ELSE [wHeap EXCEPT ![res.ref] = res]
      /\ wLast' = [n |-> wLast.n + 1, props |-> k, context |-> c,
                   result |-> res.ref]

\* A component calls withPane with its props.
WCall(k, c) ==
  /\ wLast.n = 0
  /\ WApply(k, c)

\* A later call, on the same props, on other props or on the result of the
\* first call.
WCallAgain(k, c) ==
  /\ wLast.n = 1
  /\ WApply(k, c)

WNext ==
  \/ \E k \in 1..Len(wHeap), c \in Contexts : WCall(k, c)
  \/ \E k \in 1..Len(wHeap), c \in Contexts : WCallAgain(k, c)

\* withPane is not exercised on its own.
WIdle ==
  /\ wHeap = << >>
  /\ wLast = NoPaneCall


\* ------------------------------------------------------------------------
\* Specifications.
\* ------------------------------------------------------------------------
\* One component instance driving the element hook.
Init == EInit /\ LIdle /\ PIdle /\ AIdle /\ CIdle /\ HIdle /\ KIdle /\ SIdle
    /\ XIdle /\ UIdle /\ QIdle /\ OIdle /\ RIdle /\ WIdle
Next == ENext /\ UNCHANGED <<layerVars, paneVars, attrVars, classVars,
    eventVars, controlVars, styleVars, contextVars, pathVars, paneRenderVars,
    overlayVars, rootVars, withPaneVars>>
Spec == Init /\ [][Next]_vars

\* Layer components attaching to and detaching from one map.
InitLayer == LInit /\ EIdle /\ PIdle /\ AIdle /\ CIdle /\ HIdle /\ KIdle
    /\ SIdle /\ XIdle /\ UIdle /\ QIdle /\ OIdle /\ RIdle /\ WIdle
NextLayer == LNext /\ UNCHANGED <<elemVars, paneVars, attrVars, classVars,
    eventVars, controlVars, styleVars, contextVars, pathVars, paneRenderVars,
    overlayVars, rootVars, withPaneVars>>
SpecLayer == InitLayer /\ [][NextLayer]_vars

\* Pane components mounting and unmounting against one map.
InitPane == PInit /\ EIdle /\ LIdle /\ AIdle /\ CIdle /\ HIdle /\ KIdle
    /\ SIdle /\ XIdle /\ UIdle /\ QIdle /\ OIdle /\ RIdle /\ WIdle
NextPane == PNext /\ UNCHANGED <<elemVars, layerVars, attrVars, classVars,
    eventVars, controlVars, styleVars, contextVars, pathVars, paneRenderVars,
    overlayVars, rootVars, withPaneVars>>
SpecPane == InitPane /\ [][NextPane]_vars

\* One layer component driving the attribution hook.
InitAttribution == AInit /\ EIdle /\ LIdle /\ PIdle /\ CIdle /\ HIdle
    /\ KIdle /\ SIdle /\ XIdle /\ UIdle /\ QIdle /\ OIdle /\ RIdle /\ WIdle
NextAttribution == ANext /\ UNCHANGED <<elemVars, layerVars, paneVars,
    classVars, eventVars, controlVars, styleVars, contextVars, pathVars,
    paneRenderVars, overlayVars, rootVars, withPaneVars>>
SpecAttribution == InitAttribution /\ [][NextAttribution]_vars

\* One call of updateClassName.
InitClassName == CInit /\ EIdle /\ LIdle /\ PIdle /\ AIdle /\ HIdle /\ KIdle
    /\ SIdle /\ XIdle /\ UIdle /\ QIdle /\ OIdle /\ RIdle /\ WIdle
NextClassName == CNext /\ UNCHANGED <<elemVars, layerVars, paneVars,
    attrVars, eventVars, controlVars, styleVars, contextVars, pathVars,
    paneRenderVars, overlayVars, rootVars, withPaneVars>>
SpecClassName == InitClassName /\ [][NextClassName]_vars

\* One component instance driving the event handler hook.
InitEvents == HInit /\ EIdle /\ LIdle /\ PIdle /\ AIdle /\ CIdle /\ KIdle
    /\ SIdle /\ XIdle /\ UIdle /\ QIdle /\ OIdle /\ RIdle /\ WIdle
NextEvents == HNext /\ UNCHANGED <<elemVars, layerVars, paneVars, attrVars,
    classVars, controlVars, styleVars, contextVars, pathVars, paneRenderVars,
    overlayVars, rootVars, withPaneVars>>
SpecEvents == InitEvents /\ [][NextEvents]_vars

\* One control component.
InitControl == KInit /\ EIdle /\ LIdle /\ PIdle /\ AIdle /\ CIdle /\ HIdle
    /\ SIdle /\ XIdle /\ UIdle /\ QIdle /\ OIdle /\ RIdle /\ WIdle
NextControl == KNext /\ UNCHANGED <<elemVars, layerVars, paneVars, attrVars,
    classVars, eventVars, styleVars, contextVars, pathVars, paneRenderVars,
    overlayVars, rootVars, withPaneVars>>
SpecControl == InitControl /\ [][NextControl]_vars

\* One path component driving the path options hook.
InitPathOptions == SInit /\ EIdle /\ LIdle /\ PIdle /\ AIdle /\ CIdle
    /\ HIdle /\ KIdle /\ XIdle /\ UIdle /\ QIdle /\ OIdle /\ RIdle /\ WIdle
NextPathOptions == SNext /\ UNCHANGED <<elemVars, layerVars, paneVars,
    attrVars, classVars, eventVars, controlVars, contextVars, pathVars,
    paneRenderVars, overlayVars, rootVars, withPaneVars>>
SpecPathOptions == InitPathOptions /\ [][NextPathOptions]_vars

\* Contexts being created and derived, and components reading them.
InitContext == XInit /\ EIdle /\ LIdle /\ PIdle /\ AIdle /\ CIdle /\ HIdle
    /\ KIdle /\ SIdle /\ UIdle /\ QIdle /\ OIdle /\ RIdle /\ WIdle
NextContext == XNext /\ UNCHANGED <<elemVars, layerVars, paneVars, attrVars,
    classVars, eventVars, controlVars, styleVars, pathVars, paneRenderVars,
    overlayVars, rootVars, withPaneVars>>
SpecContext == InitContext /\ [][NextContext]_vars

\* One Circle: usePath and the provider of its children.
InitPath == UInit /\ EIdle /\ LIdle /\ PIdle /\ AIdle /\ CIdle /\ HIdle
    /\ KIdle /\ SIdle /\ XIdle /\ QIdle /\ OIdle /\ RIdle /\ WIdle
NextPath == UNext /\ UNCHANGED <<elemVars, layerVars, paneVars, attrVars,
    classVars, eventVars, controlVars, styleVars, contextVars,
    paneRenderVars, overlayVars, rootVars, withPaneVars>>
SpecPath == InitPath /\ [][NextPath]_vars

\* One Pane over its renders.
InitPaneRender == QInit /\ EIdle /\ LIdle /\ PIdle /\ AIdle /\ CIdle
    /\ HIdle /\ KIdle /\ SIdle /\ XIdle /\ UIdle /\ OIdle /\ RIdle /\ WIdle
NextPaneRender == QNext /\ UNCHANGED <<elemVars, layerVars, paneVars,
    attrVars, classVars, eventVars, controlVars, styleVars, contextVars,
    pathVars, overlayVars, rootVars, withPaneVars>>
SpecPaneRender == InitPaneRender /\ [][NextPaneRender]_vars

\* One div-overlay component.
InitOverlay == OInit /\ EIdle /\ LIdle /\ PIdle /\ AIdle /\ CIdle /\ HIdle
    /\ KIdle /\ SIdle /\ XIdle /\ UIdle /\ QIdle /\ RIdle /\ WIdle
NextOverlay == ONext /\ UNCHANGED <<elemVars, layerVars, paneVars, attrVars,
    classVars, eventVars, controlVars, styleVars, contextVars, pathVars,
    paneRenderVars, rootVars, withPaneVars>>
SpecOverlay == InitOverlay /\ [][NextOverlay]_vars

\* One MapContainer.
InitMapContainer == RInit /\ EIdle /\ LIdle /\ PIdle /\ AIdle /\ CIdle
    /\ HIdle /\ KIdle /\ SIdle /\ XIdle /\ UIdle /\ QIdle /\ OIdle /\ WIdle
NextMapContainer == RNext /\ UNCHANGED <<elemVars, layerVars, paneVars,
    attrVars, classVars, eventVars, controlVars, styleVars, contextVars,
    pathVars, paneRenderVars, overlayVars, withPaneVars>>
SpecMapContainer == InitMapContainer /\ [][NextMapContainer]_vars

\* Calls of withPane on props objects.
InitWithPane == WInit /\ EIdle /\ LIdle /\ PIdle /\ AIdle /\ CIdle /\ HIdle
    /\ KIdle /\ SIdle /\ XIdle /\ UIdle /\ QIdle /\ OIdle /\ RIdle
NextWithPane == WNext /\ UNCHANGED <<elemVars, layerVars, paneVars, attrVars,
    classVars, eventVars, controlVars, styleVars, contextVars, pathVars,
    paneRenderVars, overlayVars, rootVars>>
SpecWithPane == InitWithPane /\ [][NextWithPane]_vars

\* ------------------------------------------------------------------------
\* Properties of useAttribution.
\* ------------------------------------------------------------------------
\* A step that commits a render of the component using the hook.
ACommitStep ==
  aPhase = "rendered" /\ aPhase' = "mounted" /\ aCommits' = aCommits + 1

\* The texts the control displays.
Displayed(bag) == {t \in DOMAIN bag : bag[t] > 0}

\* C10: on a map with an attribution control, a commit that changes the
\* attribution of a mounted component from a string to a different string
\* makes exactly the calls removeAttribution(old), addAttribution(new), in
\* that order, and at no point of that sequence are both displayed.
AttributionSwap ==
  [][ (/\ ACommitStep
       /\ aHasControl
       /\ aCommits >= 1
       /\ aDeps # Null /\ aAttribution # Null
       /\ aDeps # aAttribution) =>
        /\ aCalls' = << RemoveAttributionCall(aDeps),
                        AddAttributionCall(aAttribution) >>
        /\ \A k \in 0..Len(aCalls') :
              ~({aDeps, aAttribution}
                  \subseteq Displayed(BagAfter(aBag, SubSeq(aCalls', 1, k)))) ]_vars

\* C10 witness: the component was mounted with A displayed, the attribution
\* was then changed to B, and the commit made the two calls.
AttributionSwapWitness ==
  /\ aPhase = "mounted"
  /\ aHasControl
  /\ aOptions = "A"
  /\ aCommits = 2
  /\ aCalls = << RemoveAttributionCall("A"), AddAttributionCall("B") >>
  /\ Displayed(aBag) = {"B"}

\* C32: the first commit makes no call on the control, the attribution of
\* the first render being the recorded one, and the unmount makes none; a
\* step makes calls only if it is a commit of a mounted component whose
\* attribution differs from the recorded value, on a map with an
\* attribution control; and every run of the effect (the first commit, and a
\* commit under another attribution) leaves the attribution of the render
\* as the recorded value, whether or not it made a call.
AttributionCallsOnlyOnChange ==
  [][ /\ aCalls' # << >> =>
            /\ ACommitStep
            /\ aCommits >= 1
            /\ aAttribution # attributionRef
            /\ aHasControl
      /\ (ACommitStep /\ aCommits = 0) =>
            /\ attributionRef = aAttribution
            /\ aCalls' = << >>
      /\ aPhase' = "unmounted" => aCalls' = << >>
      /\ (ACommitStep /\ (aDeps = Unset \/ aDeps # aAttribution)) =>
            attributionRef' = aAttribution ]_vars

\* C32 witness: on a map without attribution control a component mounted
\* with A was committed with B: no call was made and B is recorded; the
\* component was then unmounted.
AttributionCallsOnlyOnChangeWitness ==
  /\ aPhase = "unmounted"
  /\ ~aHasControl
  /\ aOptions = "A"
  /\ aDeps = "B"
  /\ attributionRef = "B"
  /\ aCommits = 2
  /\ aCalls = << >>

\* ------------------------------------------------------------------------
\* Properties of the Pane component.
\* ------------------------------------------------------------------------
\* The effect of the first commit of the Pane in slot i has run.
PCreateStep(i) == pPhase[i] = "pending" /\ pPhase'[i] # "pending"

\* C7: mounting a Pane named like one of the seven default Leaflet panes
\* throws, without a call of map.createPane and without a change of the
\* map's pane registry.
DefaultPaneNameRejected ==
  [][ \A i \in PaneSlots :
        (/\ PCreateStep(i)
         /\ paneName[i] \in {"mapPane", "markerPane", "overlayPane",
                              "popupPane", "shadowPane", "tilePane",
                              "tooltipPane"}) =>
          /\ pPhase'[i] = "failed"
          /\ pCalls' = << >>
          /\ mPanes' = mPanes
          /\ mPaneRenderers' = mPaneRenderers ]_vars

\* C7 witness: a Pane named tilePane has failed to mount while a Pane with a
\* name of its own is ready.
DefaultPaneNameRejectedWitness ==
  \E i, j \in PaneSlots :
    /\ pPhase[i] = "failed"
    /\ pThrown = "tilePane"
    /\ pPhase[j] = "ready"

\* C8: mounting a Pane whose name is present in the map's pane registry
\* throws and leaves the registry, so the existing entry and its element,
\* as it was.
DuplicatePaneRejected ==
  [][ \A i \in PaneSlots :
        (PCreateStep(i) /\ getPane(mPanes, paneName[i]) # None) =>
          /\ pPhase'[i] = "failed"
          /\ pCalls' = << >>
          /\ mPanes' = mPanes ]_vars

\* C8 witness: a second Pane with the name of a ready Pane has failed to
\* mount, and the registry holds the element of the first one.
DuplicatePaneRejectedWitness ==
  \E i, j \in PaneSlots :
    /\ i # j
    /\ pPhase[i] = "failed"
    /\ pPhase[j] = "ready"
    /\ pThrown = paneName[j]
    /\ paneName[j] \in CustomPanes
    /\ getPane(mPanes, paneName[j]) = paneElement[j]
    /\ paneElement[j].inDom

\* C9: when a ready Pane unmounts, its name leaves map._panes and
\* map._paneRenderers and every other entry is kept; so the mount of a Pane
\* fails only for a default name or a name held by a Pane that is mounted
\* at that moment, and a name is free again after each unmount.
PaneNameReusable ==
  [][ \A i \in PaneSlots :
        /\ (pPhase[i] = "ready" /\ pPhase'[i] = "unmounted") =>
              /\ getPane(mPanes', paneName[i]) = None
              /\ DOMAIN mPanes' = DOMAIN mPanes \ {paneName[i]}
              /\ DOMAIN mPaneRenderers' = DOMAIN mPaneRenderers \ {paneName[i]}
              /\ \A n \in DOMAIN mPanes' : mPanes'[n] = mPanes[n]
              /\ \A n \in DOMAIN mPaneRenderers' :
                    mPaneRenderers'[n] = mPaneRenderers[n]
        /\ (PCreateStep(i) /\ pPhase'[i] = "failed") =>
              \/ paneName[i] \in DEFAULT_PANES
              \/ \E j \in PaneSlots \ {i} :
                    pPhase[j] = "ready" /\ paneName[j] = paneName[i] ]_vars

\* C9 witness: a Pane is ready, with a second backend element, under a name
\* that another Pane held and released by unmounting.
PaneNameReusableWitness ==
  \E i, j \in PaneSlots :
    /\ pPhase[i] = "unmounted"
    /\ pPhase[j] = "ready"
    /\ paneName[i] = paneName[j]
    /\ paneElement[j].gen = 2
    /\ getPane(mPanes, paneName[j]) = paneElement[j]

\* ------------------------------------------------------------------------
\* Properties of useLayerLifecycle.
\* ------------------------------------------------------------------------
AddCall(target, layer) ==
  [op |-> "addLayer", target |-> target, layer |-> layer]
RemoveCall(target, layer) ==
  [op |-> "removeLayer", target |-> target, layer |-> layer]

\* The layers held by the map or by a group.
Members(target) == IF target = TheMap THEN lMap ELSE lGroup[target]

\* C5: on mount the hook makes one addLayer call, on context.layerContainer
\* when it is set and on context.map otherwise, never both; on unmount it
\* calls removeLayer on the layerContainer (when set) and then on the map,
\* and afterwards the instance is a member of neither.
LayerAttachDetach ==
  [][ \A i \in Layers :
        /\ (lPhase[i] = "init" /\ lPhase'[i] = "mounted") =>
              LET lc == lCtx'[i].layerContainer
              IN  /\ lCalls' = << AddCall(IF lc = Null THEN TheMap ELSE lc, i) >>
                  /\ lc # Null => i \in lGroup'[lc]
                  /\ lc = Null => i \in lMap'
        /\ (lPhase[i] = "mounted" /\ lPhase'[i] = "unmounted") =>
              LET lc == lCtx[i].layerContainer
              IN  /\ lCalls' = IF lc = Null
                                 THEN << RemoveCall(TheMap, i) >>
                                 ELSE << RemoveCall(lc, i), RemoveCall(TheMap, i) >>
                  /\ i \notin lMap'
                  /\ lc # Null => i \notin lGroup'[lc] ]_vars

\* C5 witness: a layer mounted under a layer container has been unmounted
\* while another one, mounted directly on the map, is still attached.
LayerAttachDetachWitness ==
  \E i, j \in Layers :
    /\ lPhase[i] = "unmounted"
    /\ Len(lCalls) = 2
    /\ lCalls[1].target \in Groups
    /\ lCalls[1].layer = i
    /\ lPhase[j] = "mounted"
    /\ lCtx[j].layerContainer = Null
    /\ j \in lMap

\* C6: no step of the hook throws, also for a layer that was already
\* removed, and once every layer component has been unmounted, in whatever
\* order they were mounted and unmounted, the layer sets of the map and of
\* the containers are the ones before the first mount.
LayersRestored ==
  /\ ~lError
  /\ (\A i \in Layers : lPhase[i] = "unmounted") =>
        (lMap = lMap0 /\ lGroup = lGroup0)

\* C6 witness: every layer is unmounted, the last one from a layer
\* container, one of them had been removed by application code before, and
\* the sets before the first mount were not empty.
LayersRestoredWitness ==
  /\ \A i \in Layers : lPhase[i] = "unmounted"
  /\ lExt
  /\ Len(lCalls) = 2
  /\ lMap0 # {}
  /\ lGroup0["g2"] # {}

\* The layers the map or a group will hold after the step.
MembersAfter(target) == IF target = TheMap THEN lMap' ELSE lGroup'[target]

\* A step of application code on the backend, not one of the hook.
LExternalStep == lCalls' = << >> /\ <<lMap, lGroup>>' # <<lMap, lGroup>>

\* C31: a commit that gives a mounted layer another context reference calls
\* removeLayer on the layerContainer of the previous context (when set),
\* then removeLayer on the map, then addLayer on the layerContainer of the
\* new context (on the map when there is none), all on the one instance of
\* the component, which stays mounted; and every step of the hook leaves a
\* mounted instance in the container its current context designates: a
\* first commit and a commit under another context always, any other step
\* when the instance was there before.
LayerFollowsContext ==
  [][ \A i \in Layers :
        lPhase'[i] = "mounted" =>
          IF lPhase[i] = "mounted" /\ lCtx'[i] # lCtx[i]
            THEN LET old == lCtx[i].layerContainer
                     new == AttachTarget(lCtx'[i])
                 IN  /\ lCalls' =
                           IF old = Null
                             THEN << RemoveCall(TheMap, i), AddCall(new, i) >>
                             ELSE << RemoveCall(old, i), RemoveCall(TheMap, i),
                                     AddCall(new, i) >>
                     /\ i \in MembersAfter(new)
                     /\ old # Null /\ old # new => i \notin lGroup'[old]
            ELSE \/ i \in MembersAfter(AttachTarget(lCtx'[i]))
                 \/ lPhase[i] = "mounted"
                      /\ i \notin Members(AttachTarget(lCtx[i]))
                 \/ LExternalStep ]_vars

\* C31 witness: a mounted layer was moved by a commit from one layer
\* container to the other, while another layer stays mounted on the map.
LayerFollowsContextWitness ==
  \E i, j \in Layers :
    /\ lPhase[i] = "mounted"
    /\ lCtx[i].layerContainer = "g2"
    /\ lCalls = << RemoveCall("g1", i), RemoveCall(TheMap, i), AddCall("g2", i) >>
    /\ i \in lGroup["g2"] /\ i \notin lGroup["g1"] /\ i \notin lMap
    /\ lPhase[j] = "mounted"
    /\ lCtx[j].layerContainer = Null
    /\ j \in lMap

\* ------------------------------------------------------------------------
\* Properties of the element hook.
\* ------------------------------------------------------------------------
\* A step that commits a render.
ECommitStep ==
  ePhase = "rendered" /\ ePhase' = "mounted" /\ eCommits' = eCommits + 1

\* C1: for either hook of createElementHook, createElement is called exactly
\* once, on the first render, whatever props and context the later renders
\* bring, and the handle (and so its instance) of every later render is the
\* one created then.
ElementCreatedOnce ==
  [][ /\ eCreated' = IF ePhase = "init" /\ ePhase' = "rendered"
                        THEN 1 ELSE eCreated
      /\ elementRef # None => elementRef' = elementRef
      /\ ePhase' \in {"rendered", "mounted"} => elementRef' # None ]_vars

\* C1 witness: a third commit has happened with one instance created, after
\* a change of the props and under a context that is not the one of the
\* creation.
ElementCreatedOnceWitness ==
  /\ ePhase = "mounted"
  /\ eCommits >= 3
  /\ eCreated = 1
  /\ eChanged
  /\ eCtx # elementRef.context

\* C2: with an update function, a commit calls updateElement (once) if and
\* only if the props of the committed render are not the reference of the
\* previous committed render (of the creating render on the first commit);
\* a change of the context alone calls nothing.
UpdateIffPropsChanged ==
  [][ (ECommitStep /\ updateElement # Null) =>
        /\ Len(eCalls') <= 1
        /\ (eCalls' # << >>) <=>
              (eProps # (IF eDeps = None THEN eProps ELSE eDeps.props)) ]_vars

\* C2 witness: a re-render of the mutable hook was committed under a changed
\* context, and updateElement was called, its props differing from the last
\* applied ones.
UpdateIffPropsChangedWitness ==
  /\ ePhase = "mounted"
  /\ updateElement # Null
  /\ eCommits >= 2
  /\ Len(eCalls) = 1
  /\ eCalls[1].props # eCalls[1].prevProps
  /\ eCtx # elementRef.context

\* C3: a layer or path component re-rendered with the same user props
\* reference never invokes the update function, also when props.pane or the
\* ambient context supplies a pane name.  Stated for the plainest re-render,
\* the one that also reads the same context reference.
SameUserPropsNoUpdate ==
  [][ (/\ ECommitStep
       /\ eCommits >= 1
       /\ eUser = eCommUser
       /\ eCtx = eDeps.context) => eCalls' = << >> ]_vars

\* C4: without an update function no change of props or context after the
\* first render causes a call on the instance, and the handle stays the one
\* created on the first render.
ImmutableHookIgnoresChanges ==
  [][ updateElement = Null =>
        /\ eCalls' = << >>
        /\ elementRef # None => elementRef' = elementRef ]_vars

\* C4 witness: the immutable hook has committed a re-render with other
\* props, under a context that is not the one the instance was created with.
ImmutableHookIgnoresChangesWitness ==
  /\ ePhase = "mounted"
  /\ updateElement = Null
  /\ eCommits >= 2
  /\ eChanged
  /\ eCtx # elementRef.context
  /\ elementRef.instance = 1

\* C27: an updateElement call passes the props of the committed render and,
\* as prevProps, another object: the one propsRef held, which is the props
\* the instance was created with or the props of the previous call; after
\* the call propsRef holds the props passed.  propsRef changes in no other
\* way, so no applied props object is skipped as prevProps.
PrevPropsChain ==
  [][ /\ \A k \in 1..Len(eCalls') :
           /\ eCalls'[k].props = eProps
           /\ eCalls'[k].props # eCalls'[k].prevProps
           /\ eCalls'[k].prevProps = propsRef
           /\ propsRef' = eCalls'[k].props
      /\ propsRef' # propsRef =>
           \/ /\ eCreated' = eCreated + 1
              /\ propsRef' = eProps'
           \/ Len(eCalls') = 1 ]_vars

\* C27 witness: the update of a third commit, whose prevProps is an object
\* an earlier update applied, not the creation props.
PrevPropsChainWitness ==
  /\ ePhase = "mounted"
  /\ eCommits >= 3
  /\ Len(eCalls) = 1
  /\ eCalls[1].prevProps # eCalls[1].props
  /\ eCalls[1].prevProps.ref > NumUserProps + 1
  /\ propsRef = eProps

\* ------------------------------------------------------------------------
\* Properties of updateClassName.
\* ------------------------------------------------------------------------
\* The class tokens of a class string: its maximal runs of characters
\* other than the space; none for an absent string.
TokenSet(className) ==
  LET s == className.chars
  IN  {SubSeq(s, i, j) : <<i, j>> \in
         {ij \in (1..Len(s)) \X (1..Len(s)) :
            /\ ij[1] <= ij[2]
            /\ \A k \in ij[1]..ij[2] : s[k] # " "
            /\ (ij[1] = 1 \/ s[ij[1] - 1] = " ")
            /\ (ij[2] = Len(s) \/ s[ij[2] + 1] = " ")}}

\* The classes passed to the DomUtil function op by the call.
Passed(op) == {cCalls[i].cls : i \in {k \in 1..Len(cCalls) : cCalls[k].op = op}}

\* C11: a token of both prev and next is passed neither to removeClass nor
\* to addClass; the tokens removed are the ones of prev that are not in
\* next and the tokens added are the ones of next that are not in prev.
SharedClassUntouched ==
  (cPhase = "called" /\ cElement0 # None) =>
    /\ Passed("removeClass") = TokenSet(cPrev) \ TokenSet(cNext)
    /\ Passed("addClass") = TokenSet(cNext) \ TokenSet(cPrev)

\* C12: updateClassName makes no DOM call for an absent element or for
\* equal strings; otherwise it removes every token of prev, afterwards adds
\* every token of next, passes no empty token, and leaves the element with
\* its initial classes minus the tokens of prev plus the tokens of next.
RemoveAllThenAddAll ==
  cPhase = "called" =>
    IF cElement0 = None \/ cPrev = cNext
      THEN cCalls = << >> /\ cElement = cElement0
      ELSE /\ Passed("removeClass") = TokenSet(cPrev)
           /\ Passed("addClass") = TokenSet(cNext)
           /\ \A i, j \in 1..Len(cCalls) :
                (cCalls[i].op = "removeClass" /\ cCalls[j].op = "addClass")
                  => i < j
           /\ \A i \in 1..Len(cCalls) : cCalls[i].cls # << >>
           /\ cElement.classes =
                (cElement0.classes \ TokenSet(cPrev)) \cup TokenSet(cNext)

\* C12 witness: "a b" was replaced by "b c" on an element that carried the
\* classes a and x: a and b were removed, then b and c added.
RemoveAllThenAddAllWitness ==
  /\ cPhase = "called"
  /\ cElement0 = [classes |-> {<<"a">>, <<"x">>}]
  /\ cPrev = Str(<<"a", " ", "b">>)
  /\ cNext = Str(<<"b", " ", "c">>)
  /\ Len(cCalls) = 4
  /\ cElement.classes = {<<"b">>, <<"c">>, <<"x">>}


\* ------------------------------------------------------------------------
\* Properties of useEventHandlers.
\* ------------------------------------------------------------------------
\* A step that commits a render of the component using the hook.
HCommitStep ==
  hPhase = "rendered" /\ hPhase' = "mounted" /\ hDeps' = hHandlers

\* The handler maps installed on the instance, with multiplicity.
RECURSIVE InstalledCount(_, _)
InstalledCount(installed, maps) ==
  IF maps = {} THEN 0
  ELSE LET h == CHOOSE x \in maps : TRUE
       IN  installed[h] + InstalledCount(installed, maps \ {h})

\* C13: a commit that changes the handler map from a map H1 to another map
\* H2 calls instance.off(H1) and then instance.on(H2), and at most one
\* handler map of the hook is installed on the instance in every state.
HandlerSwapOffBeforeOn ==
  [][ /\ (/\ HCommitStep
          /\ hDeps \in HandlerMaps
          /\ hHandlers \in HandlerMaps
          /\ hDeps # hHandlers) =>
            hCalls' = << OffCall(hDeps), OnCall(hHandlers) >>
      /\ InstalledCount(hInstalled', DOMAIN hInstalled') <= 1 ]_vars

\* C13 witness: the component was mounted with handler map 1 and a later
\* commit replaced it by handler map 2.
HandlerSwapOffBeforeOnWitness ==
  /\ hPhase = "mounted"
  /\ hCalls = << OffCall([ref |-> 1]), OnCall([ref |-> 2]) >>
  /\ hInstalled[[ref |-> 2]] = 1
  /\ hInstalled[[ref |-> 1]] = 0

\* C14: no off() is ever issued for a map that is not installed, and after
\* the unmount no handler map is left installed, so every on(H) of the hook
\* was undone by one off(H) of the same map.
HandlersRemovedOnUnmount ==
  /\ ~hStray
  /\ hPhase = "unmounted" =>
       \A h \in DOMAIN hInstalled : hInstalled[h] = 0

\* C14 witness: after two on() calls, with a render without handlers in
\* between, the unmount removed the map that was installed last.
HandlersRemovedOnUnmountWitness ==
  /\ hPhase = "unmounted"
  /\ hOns = 2
  /\ hRenders = 3
  /\ Len(hCalls) = 1
  /\ hCalls[1].op = "off"
  /\ hCalls[1].handlers = hDeps


\* ------------------------------------------------------------------------
\* Properties of the control hook.
\* ------------------------------------------------------------------------
\* A step that commits a render of the control.
KCommitStep == kPhase = "rendered" /\ kCommits' = kCommits + 1

\* The calls of the given operation among calls.
CallsOf(calls, op) == SelectSeq(calls, LAMBDA c : c.op = op)

\* C15: the first commit of a control issues no setPosition call, a commit
\* issues at most one, and a commit whose position is the one of the
\* previous commit issues none.
SamePositionNoReposition ==
  [][ KCommitStep =>
        /\ Len(CallsOf(kCalls', "setPosition")) <= 1
        /\ kCommits = 0 => CallsOf(kCalls', "setPosition") = << >>
        /\ (kCommits > 0 /\ kPosition = kUpdDeps.position) =>
              CallsOf(kCalls', "setPosition") = << >> ]_vars

\* C15 witness: the control was mounted, moved by a second commit and
\* committed a third time with the same position, without a call.
SamePositionNoRepositionWitness ==
  /\ kPhase = "mounted"
  /\ kCommits = 3
  /\ kCalls = << >>
  /\ kPosition \in Positions
  /\ kControl.position = kPosition
  /\ kMoved

\* C16: a commit whose position is not the one of the previous commit and
\* is not null calls setPosition(position) exactly once, constructs no
\* control and, the map of the context being the same, neither adds the
\* control to the map nor removes it.
PositionChangeRepositions ==
  [][ (/\ KCommitStep
       /\ kCommits > 0
       /\ kPosition # Null
       /\ kPosition # kUpdDeps.position) =>
        /\ CallsOf(kCalls', "setPosition") = << SetPositionCall(kPosition) >>
        /\ kCreated' = kCreated
        /\ kElement' = kElement
        /\ kCtx.map = kCommCtx.map =>
              kCalls' = << SetPositionCall(kPosition) >> ]_vars

\* C17: the first commit calls addTo(context.map) once and nothing else on
\* the map, the unmount calls remove() once, and a commit in between under
\* a context with the same map calls neither.
ControlAddedOnceRemovedOnce ==
  [][ /\ (KCommitStep /\ kCommits = 0) =>
            /\ CallsOf(kCalls', "addTo") = << AddToCall(kCtx.map) >>
            /\ CallsOf(kCalls', "remove") = << >>
            /\ kControl'.map = kCtx.map
      /\ (KCommitStep /\ kCommits > 0 /\ kCtx.map = kCommCtx.map) =>
            /\ CallsOf(kCalls', "addTo") = << >>
            /\ CallsOf(kCalls', "remove") = << >>
            /\ kControl'.map = kControl.map
      /\ (kPhase = "mounted" /\ kPhase' = "unmounted") =>
            /\ kCalls' = << RemoveControlCall >>
            /\ kControl'.map = Null ]_vars

\* C17 witness: a control that was re-rendered with another position under
\* another context object carrying the same map has been unmounted.
ControlAddedOnceRemovedOnceWitness ==
  /\ kPhase = "unmounted"
  /\ kCommits = 2
  /\ kCalls = << RemoveControlCall >>
  /\ kCommCtx # kElement.context
  /\ kCommCtx.map = kElement.context.map
  /\ kControl.position # DefaultPosition
  /\ kControl.map = Null


\* ------------------------------------------------------------------------
\* Properties of usePathOptions.
\* ------------------------------------------------------------------------
\* A step that commits a render of the path component.
SCommitStep == sPhase = "rendered" /\ sCommits' = sCommits + 1

\* The pathOptions of the last committed render: undefined before it.
CommittedPathOptions == IF sDeps = NoDeps THEN None ELSE sDeps.pathOptions

\* C18: a commit calls setStyle exactly when the pathOptions of its render
\* are not the reference of the previously committed render, with the
\* pathOptions, or with an empty object when they are undefined; a commit
\* whose pathOptions did not change, also when they stay undefined, calls
\* nothing.
SetStyleIffPathOptionsChanged ==
  [][ SCommitStep =>
        IF sProps.pathOptions # CommittedPathOptions
          THEN /\ Len(sCalls') = 1
               /\ sCalls'[1].op = "setStyle"
               /\ sProps.pathOptions # None =>
                     sCalls'[1].options = sProps.pathOptions
               /\ sProps.pathOptions = None =>
                     sCalls'[1].options \notin PathOptionObjects
          ELSE sCalls' = << >> ]_vars


\* ------------------------------------------------------------------------
\* Properties of the context functions.
\* ------------------------------------------------------------------------
\* The steps of a render or commit that create something in the backend.
BackendSteps == {"createElement", "createPane", "addLayer"}

\* C19: a component hook rendered where useContext gives null throws, and
\* otherwise goes on with exactly the context useContext gave; none of the
\* hooks has a backend step in a render that threw, and every backend step
\* comes after a useLeafletContext that returned.
ContextRequired ==
  xHook # Null =>
    /\ xResult.threw <=> xContext = 0
    /\ ~xResult.threw => xResult.context = xContext
    /\ xSteps[1] = "useLeafletContext"
    /\ xResult.threw =>
          \A i \in 1..Len(xSteps) : xSteps[i] \notin BackendSteps
    /\ \A i \in 1..Len(xSteps) :
          xSteps[i] \in BackendSteps => (i > 1 /\ xContext # 0)

\* C19 witness: a hook was rendered without a provider and threw after its
\* first step, although a context object exists.
ContextRequiredWitness ==
  /\ xHook = "useLeafletControl"
  /\ xContext = 0
  /\ xResult.threw
  /\ xSteps = << "useLeafletContext", "throw" >>
  /\ Len(xHeap) > 0

\* The keys of a context other than the version and the map.
AmbientKeys == {"layerContainer", "layersControl", "overlayContainer", "pane"}

\* C20: extendContext adds a new frozen object whose keys are those of
\* source and of extra, with the value of extra where extra has the key and
\* the value of source elsewhere, and leaves every existing object, so
\* source, as it was; createLeafletContext adds a frozen object with
\* __version = CONTEXT_VERSION, the given map and no other key.
ContextDerivation ==
  [][ /\ (xLast'.op = "extendContext" /\ Len(xHeap') = Len(xHeap) + 1) =>
            LET new == xHeap'[Len(xHeap')]
                source == xHeap[xLast'.source]
                extra == xLast'.extra
            IN  /\ new.frozen
                /\ DOMAIN new.fields = DOMAIN source.fields \cup DOMAIN extra
                /\ \A k \in DOMAIN extra : new.fields[k] = extra[k]
                /\ \A k \in DOMAIN source.fields \ DOMAIN extra :
                      new.fields[k] = source.fields[k]
                /\ \A i \in 1..Len(xHeap) : xHeap'[i] = xHeap[i]
      /\ (xLast'.op = "createLeafletContext"
            /\ Len(xHeap') = Len(xHeap) + 1) =>
            LET new == xHeap'[Len(xHeap')]
            IN  /\ new.frozen
                /\ new.fields["__version"] = CONTEXT_VERSION
                /\ new.fields["map"] = xLast'.map
                /\ DOMAIN new.fields \cap AmbientKeys = {}
                /\ \A i \in 1..Len(xHeap) : xHeap'[i] = xHeap[i] ]_vars

\* C20 witness: a context was derived from the root context with an extra
\* naming another map, a layer container and a pane.
ContextDerivationWitness ==
  /\ Len(xHeap) = 2
  /\ xLast.op = "extendContext"
  /\ DOMAIN xLast.extra = {"map", "layerContainer", "pane"}
  /\ xHeap[1].fields["map"] = "map1"
  /\ xHeap[2].fields["map"] = "map2"
  /\ xHeap[2].fields["__version"] = 1
  /\ xHeap[2].fields["pane"] = "paneA"


\* The contexts a LeafletProvider publishes are the ones the map container
\* (createLeafletContext), a container component such as Circle
\* (extendContext) and a Pane make: every object of the heap.
\* C21: every published context is frozen, and a derived one is an object
\* other than the context it was derived from.
PublishedContextsFrozen ==
  /\ \A id \in 1..Len(xHeap) : xHeap[id].frozen
  /\ xLast.op \in {"extendContext", "PaneComponent"} =>
        xLast.source # Len(xHeap)

\* ------------------------------------------------------------------------
\* Properties of usePath and of the container component.
\* ------------------------------------------------------------------------
\* The containers that hold the layer.
Holders(layer, map, group) ==
  {t \in {TheMap} \cup Groups :
     layer \in (IF t = TheMap THEN map ELSE group[t])}

\* The listeners and the layer sets after a sequence of backend calls.
RECURSIVE PathBackendAfter(_, _)
PathBackendAfter(st, calls) ==
  IF calls = << >> THEN st
  ELSE LET c == Head(calls)
           b == [map |-> st.map, group |-> st.group, error |-> FALSE,
                 calls |-> << >>]
           next ==
             CASE c.op = "on" ->
                    [st EXCEPT !.installed = InstanceOn(@, c.handlers)]
               [] c.op = "off" ->
                    [st EXCEPT !.installed = InstanceOff(@, c.handlers)]
               [] c.op = "addLayer" ->
                    LET a == BackendAddLayer(b, c.target, c.layer)
                    IN  [st EXCEPT !.map = a.map, !.group = a.group]
               [] c.op = "removeLayer" ->
                    LET r == BackendRemoveLayer(b, c.target, c.layer)
                    IN  [st EXCEPT !.map = r.map, !.group = r.group]
               [] OTHER -> st
       IN  PathBackendAfter(next, Tail(calls))

\* C22: an instance the element hook constructed has been attached by the
\* time its component is gone (its render discarded, or unmounted), and
\* after the unmount no container holds it.
NoPartialTeardown ==
  /\ (uPhase \in {"discarded", "unmounted"} /\ uCreated > 0) => uAttached
  /\ uPhase = "unmounted" => Holders(uElement.instance, uMap, uGroup) = {}

\* C25: every backend call of the hooks is made on the instance a render
\* of an earlier step constructed; the unmount removes the installed
\* handler map and the layer, leaving no listener and no container holding
\* the instance; after the unmount no call is made.
PathLifecycleOrder ==
  [][ /\ uCalls' # << >> =>
           /\ uElement # None /\ uElement' = uElement
           /\ uCreated' = uCreated
           /\ \A k \in 1..Len(uCalls') :
                /\ uCalls'[k].op = "updateElement" =>
                     uCalls'[k].instance = uElement.instance
                /\ uCalls'[k].op \in {"addLayer", "removeLayer"} =>
                     uCalls'[k].layer = uElement.instance
      /\ (uPhase = "mounted" /\ uPhase' = "unmounted") =>
           /\ uHandlersRef # None =>
                \E k \in 1..Len(uCalls') : uCalls'[k] = OffCall(uHandlersRef)
           /\ \E k \in 1..Len(uCalls') :
                /\ uCalls'[k].op = "removeLayer"
                /\ uCalls'[k].target = TheMap
           /\ \A h \in PathHandlerMaps : uInstalled'[h] = 0
           /\ Holders(uElement.instance, uMap', uGroup') = {}
      /\ uPhase = "unmounted" => uCalls' = uCalls ]_vars

PathLifecycleOrderWitness ==
  /\ uPhase = "unmounted"
  /\ uRenders >= 2
  /\ \E k \in 1..Len(uCalls) : uCalls[k].op = "off"
  /\ \E k \in 1..Len(uCalls) :
       uCalls[k].op = "removeLayer" /\ uCalls[k].target \in Groups

\* C26: each updateElement and setStyle call of a commit is made while the
\* ambient container of the committed render holds the instance and the
\* handler map of the committed props is installed.
SyncWhileAttachedAndListening ==
  [][ \A k \in 1..Len(uCalls') :
        uCalls'[k].op \in {"updateElement", "setStyle"} =>
          LET st == PathBackendAfter(
                      [installed |-> uInstalled, map |-> uMap,
                       group |-> uGroup],
                      SubSeq(uCalls', 1, k - 1))
          IN  /\ AttachTarget(ContextProps(uCtx'))
                   \in Holders(uElement.instance, st.map, st.group)
              /\ uProps'.eventHandlers # None =>
                   st.installed[uProps'.eventHandlers] > 0 ]_vars

\* C30: every render of the container publishes the context of its handle;
\* that context is made at creation: frozen, the ambient context of that
\* render plus overlayContainer, the circle; later renders publish the
\* same object whatever the ambient context is.
ContainerPublishesHandleContext ==
  [][ (uPhase' = "rendered" /\ uRenders' = uRenders + 1) =>
        /\ uPublished' = uElement'.context
        /\ uElement = None =>
             /\ uPublished'.frozen
             /\ DOMAIN uPublished'.fields =
                  DOMAIN uCtx'.fields \cup {"overlayContainer"}
             /\ uPublished'.fields.overlayContainer = uElement'.instance
             /\ \A key \in DOMAIN uCtx'.fields :
                  uPublished'.fields[key] = uCtx'.fields[key]
        /\ uElement # None => uPublished' = uPublished ]_vars

ContainerPublishesHandleContextWitness ==
  /\ uPhase = "mounted"
  /\ uRenders >= 2
  /\ "layerContainer" \in DOMAIN uCtx.fields
  /\ "layerContainer" \notin DOMAIN uPublished.fields


\* ------------------------------------------------------------------------
\* Properties of the Pane over its renders.
\* ------------------------------------------------------------------------
\* C23: the Pane gets its backend element in the effect of its first
\* commit and nowhere else (the effect makes it ready unless createPane
\* throws for a reserved or taken name); a Pane that has its element keeps
\* it until it unmounts; a render returns the portal with the children
\* only when the element createPane returned is in the registry.
PaneTwoStates ==
  [][ /\ (qPaneElement = None /\ qPaneElement' # None) =>
           /\ qPhase = "pending" /\ qPhase' = "ready"
           /\ qRenders = 1 /\ qRenders' = 1
           /\ Len(qCalls') = 1 /\ qCalls'[1].op = "createPane"
      /\ (qPhase = "pending" /\ qPhase' # "pending") =>
           \/ qPhase' = "ready" /\ qPaneElement' # None
           \/ /\ qPhase' = "failed"
              /\ IsDefaultPane(qPaneName) \/ PaneExists(qPanes, qPaneName)
      /\ qPaneElement # None =>
           qPaneElement' = qPaneElement \/ qPhase' = "unmounted"
      /\ qOutput' # None =>
           /\ qPhase' = "ready"
           /\ qPaneElement' # None
           /\ getPane(qPanes', qPaneName') = qPaneElement' ]_vars

PaneTwoStatesWitness ==
  /\ qPhase = "ready"
  /\ qRenders >= 2
  /\ qOutput # None

\* C24: the createPane call, the remove call, the registry entry and the
\* pane of the published context all carry the name of the first render.
PaneNameFixed ==
  [][ qEffect' # None =>
        LET first == qEffect'.props.name
        IN  /\ \A k \in 1..Len(qCalls') : qCalls'[k].name = first
            /\ DOMAIN qPanes' \ DEFAULT_PANES \subseteq {first}
            /\ qOutput' # None => qOutput'.fields.pane = first
            /\ (qPhase = "ready" /\ qPhase' = "unmounted") =>
                 /\ Len(qCalls') = 1 /\ qCalls'[1].op = "remove"
                 /\ first \notin DOMAIN qPanes' ]_vars

PaneNameFixedWitness ==
  /\ qPhase = "unmounted"
  /\ qProps.name # qEffect.props.name
  /\ qMemoDeps # qEffect.context
  /\ qCalls # << >>


MapContainerLifecycle ==
  [][ /\ rMaps' <= 1
      /\ rRemoved' <= 1
      /\ rOutput' # None =>
           /\ rSeen' = None => rOutput'.children = None
           /\ rOutput'.children # None =>
                /\ rMaps' = 1
                /\ rOutput'.provider = createLeafletContext(1)
      /\ (rPhase # "unmounted" /\ rPhase' = "unmounted" /\ rMaps = 1) =>
           rCalls' = << [op |-> "remove", map |-> 1] >> ]_vars

\* ------------------------------------------------------------------------
\* Properties of withPane.
\* ------------------------------------------------------------------------
\* C33: a call withPane(props, context) changes no object that existed
\* before it, props included.  With the effective pane props.pane, or
\* context.pane when props.pane is null: for a non-empty effective pane the
\* result is an object that did not exist before, with the fields of props
\* and the effective pane as its pane; when neither props nor the context
\* defines a pane (and also for an empty pane name) the result is props
\* itself and no object is allocated.
WithPaneResult ==
  [][ wLast'.n # wLast.n =>
        LET k == wLast'.props
            props == wHeap[k]
            r == wLast'.result
            pane == IF props.pane # Null THEN props.pane
                                         ELSE wLast'.context.pane
        IN  /\ \A j \in 1..Len(wHeap) : wHeap'[j] = wHeap[j]
            /\ IF pane # Null /\ pane # ""
                 THEN /\ r = Len(wHeap) + 1
                      /\ Len(wHeap') = r
                      /\ wHeap'[r].pane = pane
                      /\ wHeap'[r].attribution = props.attribution
                      /\ DOMAIN wHeap'[r] = DOMAIN props
                 ELSE /\ r = k
                      /\ Len(wHeap') = Len(wHeap) ]_vars

\* C33 witness: the first call returned a new object with the pane of the
\* context, for props without pane that carry another option; the second
\* call, on props without pane under a context without pane, returned the
\* props themselves.
WithPaneResultWitness ==
  /\ wLast.n = 2
  /\ Len(wHeap) = NumUserProps + 1
  /\ wHeap[Len(wHeap)].pane = "ctxPane"
  /\ wHeap[Len(wHeap)].attribution = "A"
  /\ \E k \in 1..NumUserProps :
        wHeap[k].pane = Null /\ wHeap[k].attribution = "A"
  /\ wLast.result = wLast.props
  /\ wHeap[wLast.props].pane = Null
  /\ wLast.context.pane = Null


====
